---- MODULE Spec2Model ----
(***************************************************************************)
(* Batch orchestrator and resumable progress log of video_processor.       *)
(*                                                                         *)
(*   core/processor.py   process_subfolder, process_single_video           *)
(*   utils/csv_logger.py initialize_processing_log, update_processing_log  *)
(*                                                                         *)
(* The two CSV files of a subfolder are modelled at the level of the file  *)
(* system calls the code makes: a path names an inode, open() binds a      *)
(* handle to an inode, a buffered text file reaches its inode when it is   *)
(* closed, os.replace() renames.  Worker threads of the ThreadPoolExecutor *)
(* interleave between those calls.                                         *)
(***************************************************************************)
EXTENDS Integers, Sequences, FiniteSets, TLC

\* ---------------------------------------------------------------- bounds
NumFiles == 3
MaxWorkers == 2
MaxRuns == 2
MaxClips == 1
MaxSegments == 3
MaxFrame == 2
MaxGap == 4
MaxBuffer == 3

MaxBoxes == 2

\* ------------------------------------------------------------- constants
log_file == "processing_log.csv"
\* An update that writes into the log itself instead of a file beside it.
temp_file_in_place == "processing_log.csv"

temp_file == "processing_log_temp.csv"
subfolder_path == "in"
output_base_dir == "out"

\* The names the folder can hold, in name order.
FileNames == <<"a.mp4", "b.mp4", "c.mp4", "d.mp4">>
Files == {FileNames[i] : i \in 1..NumFiles}

\* datetime.now().strftime('%Y-%m-%d %H:%M:%S'): 19 characters, never empty.
NowStr == "2026-01-01 00:00:00"

\* The text a torn row parses to: a row whose filename is no file's name.
JunkName == "?"

\* ------------------------------------------------------------ text helpers
Range(s) == {s[i] : i \in DOMAIN s}

Char(s, i) == SubSeq(s, i, i)

UpperAlphabet == "ABCDEFGHIJKLMNOPQRSTUVWXYZ"
LowerAlphabet == "abcdefghijklmnopqrstuvwxyz"

\* The lower-case letter of every upper-case letter.
LowerOf ==
  [c \in {Char(UpperAlphabet, k) : k \in 1..Len(UpperAlphabet)} |->
     Char(LowerAlphabet, CHOOSE k \in 1..Len(UpperAlphabet) : Char(UpperAlphabet, k) = c)]

LowerChar(c) == IF c \in DOMAIN LowerOf THEN LowerOf[c] ELSE c

RECURSIVE Lower(_)
Lower(s) == IF s = "" THEN "" ELSE LowerChar(Char(s, 1)) \o Lower(SubSeq(s, 2, Len(s)))

EndsWith(s, suffix) ==
  /\ Len(s) >= Len(suffix)
  /\ SubSeq(s, Len(s) - Len(suffix) + 1, Len(s)) = suffix

\* os.path.join(a, b)
PathJoin(a, b) == a \o "/" \o b

\* Position of the last "/" of p, 0 when there is none.
RECURSIVE LastSlash(_, _)
LastSlash(p, i) ==
  IF i = 0 THEN 0
  ELSE IF Char(p, i) = "/" THEN i ELSE LastSlash(p, i - 1)

\* os.path.basename(p)
Basename(p) == SubSeq(p, LastSlash(p, Len(p)) + 1, Len(p))

\* os.path.splitext(p)[0] for a name with one dot-extension of three letters
RECURSIVE LastDot(_, _)
LastDot(p, i) ==
  IF i = 0 THEN 0
  ELSE IF Char(p, i) = "." THEN i ELSE LastDot(p, i - 1)

SplitExtStem(p) ==
  IF LastDot(p, Len(p)) <= 1 THEN p ELSE SubSeq(p, 1, LastDot(p, Len(p)) - 1)

\* str(n) of a non-negative integer
Str(n) == ToString(n)

\* json.dumps of a list of strings without special characters
RECURSIVE JsonItems(_)
JsonItems(names) ==
  IF names = <<>> THEN ""
  ELSE "\"" \o Head(names) \o "\""
       \o (IF Len(names) > 1 THEN ", " ELSE "")
       \o JsonItems(Tail(names))

JsonDumps(names) == "[" \o JsonItems(names) \o "]"

\* json.loads of a string: the list, or Error for text that is no JSON list of
\* strings (json.JSONDecodeError).
JsonError == <<"JSONDecodeError">>

RECURSIVE JsonLoadItems(_, _, _)
JsonLoadItems(s, i, acc) ==
  \* s[i] is where an item has to start
  IF i > Len(s) THEN JsonError
  ELSE IF Char(s, i) # "\"" THEN JsonError
  ELSE
    LET closing == IF \E j \in (i + 1)..Len(s) : Char(s, j) = "\""
                   THEN CHOOSE j \in (i + 1)..Len(s) :
                          /\ Char(s, j) = "\""
                          /\ \A k \in (i + 1)..(j - 1) : Char(s, k) # "\""
                   ELSE 0
    IN IF closing = 0 THEN JsonError
       ELSE LET item == SubSeq(s, i + 1, closing - 1)
                rest == closing + 1
            IN IF rest = Len(s) /\ Char(s, rest) = "]" THEN Append(acc, item)
               ELSE IF rest + 1 <= Len(s) /\ SubSeq(s, rest, rest + 1) = ", "
                    THEN JsonLoadItems(s, rest + 2, Append(acc, item))
                    ELSE JsonError

JsonLoads(s) ==
  IF s = "[]" THEN <<>>
  ELSE IF Len(s) >= 2 /\ Char(s, 1) = "[" THEN JsonLoadItems(s, 2, <<>>)
  ELSE JsonError

\* strip() of the blanks at both ends
RECURSIVE Strip(_)
Strip(s) ==
  IF s = "" THEN ""
  ELSE IF Char(s, 1) = " " THEN Strip(SubSeq(s, 2, Len(s)))
  ELSE IF Char(s, Len(s)) = " " THEN Strip(SubSeq(s, 1, Len(s) - 1))
  ELSE s

TwoDigits(n) == IF n < 10 THEN "0" \o Str(n) ELSE Str(n)

\* str(timedelta(seconds=int(t))).replace(':', '') for 0 <= t < 86400
TimeStr(t) == Str(t \div 3600) \o TwoDigits((t % 3600) \div 60) \o TwoDigits(t % 60)

\* f"{n:03d}"
ThreeDigits(n) == IF n < 10 THEN "00" \o Str(n) ELSE IF n < 100 THEN "0" \o Str(n) ELSE Str(n)

\* --------------------------------------------------------------- CSV table
fieldnames == <<"filename", "processed_datetime", "objects", "motion", "segment_files">>

\* The row initialize_processing_log writes for a file it sees for the first time.
EmptyRow(filename) ==
  [filename |-> filename, processed_datetime |-> "", objects |-> "", motion |-> "",
   segment_files |-> ""]

JunkRow == EmptyRow(JunkName)

RowCells(row) ==
  <<row.filename, row.processed_datetime, row.objects, row.motion, row.segment_files>>

\* csv.writer, QUOTE_MINIMAL: a cell holding the delimiter, the quote character or
\* a line end is quoted and its quotes are doubled.
NeedsQuote(s) == \E i \in 1..Len(s) : Char(s, i) \in {",", "\"", "\r", "\n"}

CountQuotes(s) == Cardinality({i \in 1..Len(s) : Char(s, i) = "\""})

CsvFieldBytes(s) == IF NeedsQuote(s) THEN Len(s) + 2 + CountQuotes(s) ELSE Len(s)

RECURSIVE SumBytes(_)
SumBytes(cells) ==
  IF cells = <<>> THEN 0 ELSE CsvFieldBytes(Head(cells)) + SumBytes(Tail(cells))

\* One line of the file: the cells, the commas between them and "\r\n".
LineBytes(cells) == SumBytes(cells) + (Len(cells) - 1) + 2

RowBytes(row) == LineBytes(RowCells(row))

HeaderBytes == LineBytes(fieldnames)

\* What a file holds: whether it starts with the header line, and its rows.
NoContent == [hdr |-> FALSE, rows |-> <<>>]

Table(rows) == [hdr |-> TRUE, rows |-> rows]

RECURSIVE RowsBytes(_)
RowsBytes(rows) == IF rows = <<>> THEN 0 ELSE RowBytes(Head(rows)) + RowsBytes(Tail(rows))

ContentBytes(c) == (IF c.hdr THEN HeaderBytes ELSE 0) + RowsBytes(c.rows)

\* The rows of old that lie behind byte offset off.  pos is the offset of the
\* first row of rows.  A row cut by off is torn: what is left of it parses as a
\* junk row, unless only its line end is left (csv skips an empty line).
RECURSIVE TailFrom(_, _, _)
TailFrom(rows, pos, off) ==
  IF rows = <<>> THEN <<>>
  ELSE LET end == pos + RowBytes(Head(rows))
       IN IF end <= off THEN TailFrom(Tail(rows), end, off)
          ELSE IF pos >= off THEN rows
          ELSE IF end - off <= 2 THEN Tail(rows)
          ELSE <<JunkRow>> \o Tail(rows)

\* write() of the whole buffer new at file offset 0 of a file that holds old:
\* the bytes of old behind the end of new stay.
WriteAt0(old, new) ==
  IF ContentBytes(new) >= ContentBytes(old) THEN new
  ELSE [hdr |-> new.hdr,
        rows |-> new.rows \o TailFrom(old.rows, IF old.hdr THEN HeaderBytes ELSE 0,
                                      ContentBytes(new))]

\* write() of one row at the end of a file opened in append mode
WriteAtEnd(old, row) == [hdr |-> old.hdr, rows |-> Append(old.rows, row)]

\* csv.DictReader over a file followed by row['filename'] for each row: the
\* first line is the header whatever it holds, so a file without the header line
\* loses its first row to it, and its other rows have no key 'filename'.
DictReader(c) ==
  IF c.hdr THEN [KeyError |-> FALSE, rows |-> c.rows]
  ELSE [KeyError |-> Len(c.rows) > 1, rows |-> <<>>]

\* ------------------------------------------------- process_video, abstractly
\* One entry of the list process_video returns (video.py, extracted_clips).
ClipInfo(video_path, i, start_time, end_time, objects, motion) ==
  LET video_name == SplitExtStem(Basename(video_path))
      segment_name == video_name \o "_seg" \o ThreeDigits(i) \o "_" \o TimeStr(start_time)
                      \o "_" \o TimeStr(end_time)
                      \o (IF objects THEN "_obj" ELSE "")
                      \o (IF motion THEN "_mot" ELSE "")
  IN [filename |-> PathJoin(PathJoin(output_base_dir, Basename(subfolder_path)),
                            segment_name \o ".mp4"),
      start_time |-> start_time,
      end_time |-> end_time,
      duration |-> end_time - start_time,
      objects |-> IF objects THEN 1 ELSE 0,
      motion |-> IF motion THEN 1 ELSE 0]

\* The flags (objects, motion) of the segments of the modelled videos: motion
\* without a detected object.
SegmentFlags == {<<FALSE, TRUE>>}

\* The clip lists of up to MaxClips clips; clip i covers seconds 10i+2 .. 10i+8.
RECURSIVE ClipLists(_, _)
ClipLists(video_path, n) ==
  IF n = 0 THEN {<<>>}
  ELSE LET shorter == ClipLists(video_path, n - 1)
       IN shorter \cup
          {Append(cl, ClipInfo(video_path, n, 10 * n + 2, 10 * n + 8, fl[1], fl[2])) :
             cl \in {c \in shorter : Len(c) = n - 1}, fl \in SegmentFlags}

\* ----------------------------------------------------------- string order
AsciiOrder == "./0123456789?ABCDEFGHIJKLMNOPQRSTUVWXYZ_abcdefghijklmnopqrstuvwxyz"

CharRank(c) == CHOOSE k \in 1..Len(AsciiOrder) : Char(AsciiOrder, k) = c

\* a < b for Python strings
RECURSIVE StrLess(_, _)
StrLess(a, b) ==
  IF b = "" THEN FALSE
  ELSE IF a = "" THEN TRUE
  ELSE IF Char(a, 1) = Char(b, 1) THEN StrLess(SubSeq(a, 2, Len(a)), SubSeq(b, 2, Len(b)))
  ELSE CharRank(Char(a, 1)) < CharRank(Char(b, 1))

RECURSIVE Insert(_, _)
Insert(sorted, x) ==
  IF sorted = <<>> THEN <<x>>
  ELSE IF StrLess(x, Head(sorted)) THEN <<x>> \o sorted
  ELSE <<Head(sorted)>> \o Insert(Tail(sorted), x)

\* A list left in the order it was given in.
Unsorted(list) == list

\* list.sort() of a list of strings
RECURSIVE Sort(_)
Sort(list) == IF list = <<>> THEN <<>> ELSE Insert(Sort(SubSeq(list, 1, Len(list) - 1)), list[Len(list)])


\* ------------------------------------------------------------------ state
VARIABLES
  listing,               \* the videos of the subfolder, in os.listdir order
  unreadable,            \* the videos of the subfolder cv2.VideoCapture cannot open
  dir,                   \* path -> inode number, 0 when the path does not exist
  inode,                 \* inode number -> what the file holds
  run_limit,             \* how often the caller calls process_subfolder
  runs,                  \* calls of process_subfolder so far
  mainPc,                \* where the thread that called process_subfolder is
  processing_cancelled,  \* processor.py's module global
  max_workers,
  video_files,           \* the work list of the run
  future,                \* future_to_video: one future per submitted task
  yielded,               \* the futures as_completed has handed out
  completed_count,
  all_clips,
  errors,
  raised,                \* the exception process_subfolder is leaving with, "" for none
  thread,                \* task -> the state of the pool thread that runs it
  pipeline,              \* history: what process_video did for each file in this run
  hadRow,                \* history: the filenames that have had a row in log_file
  logAtStart,            \* history: the rows of log_file when the run's work list was made
  interrupted,           \* history: the update_processing_log calls a kill has cut short
  pv,                    \* the locals of one call of process_video on a given video
  mg,                    \* the segment lists of the merge step of process_video
  ui                     \* the notebook front end: jupyter_interface.py's module global and widgets

vars == <<listing, unreadable, dir, inode, run_limit, runs, mainPc, processing_cancelled, max_workers,
          video_files, future, yielded, completed_count, all_clips, errors, raised, thread,
          pipeline, hadRow, logAtStart, interrupted, pv, mg, ui>>

\* process_video has not been called.
NotCalled == [pc |-> "none"]

\* No segment list is being merged.
NotMerging == [pc |-> "none"]

\* process_subfolder is called without the notebook front end.
NoFrontEnd == [pc |-> "none"]

Paths == {log_file, temp_file}
NumInodes == 2 * MaxWorkers + 2
Inodes == 1..NumInodes

NotRun == [kind |-> "none", segment_files |-> <<>>]

NoData == [processed_datetime |-> "", objects |-> "", motion |-> "", segment_files |-> <<>>]

\* A pool thread that has not been given the task, or has finished it.
IdleThread ==
  [pc |-> "idle", video_path |-> "", clips |-> <<>>, error |-> "", handler |-> FALSE,
   data |-> NoData, rd |-> 0, wr |-> 0, buf |-> <<>>, updated |-> FALSE,
   before |-> NoContent]

\* The inodes a path or an open file refers to.
Referenced(d, th) ==
  {d[p] : p \in Paths} \cup {th[k].rd : k \in DOMAIN th} \cup {th[k].wr : k \in DOMAIN th}

\* A file no path and no open file refers to is gone.
Reclaim(d, th, ino) == [n \in Inodes |-> IF n \in Referenced(d, th) THEN ino[n] ELSE NoContent]

\* The inode a newly created file gets.
NewInode ==
  CHOOSE n \in Inodes :
    /\ n \notin Referenced(dir, thread)
    /\ \A m \in Inodes : m \notin Referenced(dir, thread) => n <= m

RowNames(rows) == {rows[k].filename : k \in DOMAIN rows}

RowsAt(d, ino) == IF d[log_file] = 0 THEN <<>> ELSE ino[d[log_file]].rows

LogRows == RowsAt(dir, inode)

\* A folder no run has touched, its videos listed in the given order.
InitFolder(order) ==
  /\ listing = order
  /\ dir = [p \in Paths |-> 0]
  /\ inode = [n \in Inodes |-> NoContent]
  /\ runs = 0
  /\ mainPc = "idle"
  /\ processing_cancelled = FALSE
  /\ video_files = <<>>
  /\ future = <<>>
  /\ yielded = {}
  /\ completed_count = 0
  /\ all_clips = <<>>
  /\ errors = <<>>
  /\ raised = ""
  /\ thread = <<>>
  /\ pipeline = [f \in Files |-> NotRun]
  /\ hadRow = {}
  /\ logAtStart = <<>>
  /\ interrupted = {}

ByName == [k \in 1..NumFiles |-> FileNames[k]]
ByNameReversed == [k \in 1..NumFiles |-> FileNames[NumFiles + 1 - k]]

\* One call of process_subfolder with a pool of MaxWorkers threads.
Init ==
  /\ InitFolder(ByNameReversed)
  /\ unreadable = {FileNames[NumFiles]}
  /\ max_workers = MaxWorkers
  /\ run_limit = 1
  /\ pv = NotCalled
  /\ mg = NotMerging
  /\ ui = NoFrontEnd

\* ------------------------------------------------------------ csv_logger.py
\* A Python string is true when it is not empty.
Truthy(s) == s # ""

\* csv_logger.py:38-43: the segment_files cell as initialize_processing_log keeps it
ParsedRow(row) ==
  [row EXCEPT !.segment_files =
     IF Truthy(row.segment_files) /\ Truthy(Strip(row.segment_files))
     THEN (IF JsonLoads(row.segment_files) = JsonError THEN <<>>
           ELSE JsonLoads(row.segment_files))
     ELSE row.segment_files]

LastIndex(rows, name) ==
  CHOOSE k \in DOMAIN rows :
    /\ rows[k].filename = name
    /\ \A j \in DOMAIN rows : j > k => rows[j].filename # name

\* csv_logger.py:33-43: processed_files[filename] = row, a later row replacing an
\* earlier one of the same filename
ReadProcessedFiles(rows) ==
  [name \in RowNames(rows) |-> ParsedRow(rows[LastIndex(rows, name)])]

\* A row for every file of the list, whether it has one or not.
NewRowsForEvery(files, known) == [k \in DOMAIN files |-> EmptyRow(Basename(files[k]))]

\* csv_logger.py:59-71: the rows appended for the files that have none
RECURSIVE NewRows(_, _)
NewRows(files, known) ==
  IF files = <<>> THEN <<>>
  ELSE LET filename == Basename(Head(files))
       IN IF filename \in known THEN NewRows(Tail(files), known)
          ELSE <<EmptyRow(filename)>> \o NewRows(Tail(files), known \cup {filename})

\* initialize_processing_log(subfolder_path, files): the file it leaves and the
\* dict it returns, or KeyError when a row it reads has no key 'filename'.
initialize_processing_log(files) ==
  LET exists == dir[log_file] # 0
      found == IF exists THEN inode[dir[log_file]] ELSE NoContent
      read == IF exists THEN DictReader(found) ELSE [KeyError |-> FALSE, rows |-> <<>>]
      created == IF exists THEN found ELSE Table(<<>>)
      known == ReadProcessedFiles(read.rows)
      added == NewRows(files, DOMAIN known)
  IN [KeyError |-> read.KeyError,
      content |-> [hdr |-> created.hdr, rows |-> created.rows \o added],
      processed_files |->
        [name \in DOMAIN known \cup RowNames(added) |->
           IF name \in DOMAIN known THEN known[name] ELSE EmptyRow(name)]]

\* csv_logger.py:92-94 and 107-108: row[key] = value for the keys of data, the
\* segment_files list as JSON text
UpdatedRow(row, data) ==
  [row EXCEPT !.processed_datetime = data.processed_datetime,
              !.objects = data.objects,
              !.motion = data.motion,
              !.segment_files = JsonDumps(data.segment_files)]

\* A rewrite that puts the data into every row it reads.
RewrittenEveryRow(rows, filename, data) == [k \in DOMAIN rows |-> UpdatedRow(rows[k], data)]

\* csv_logger.py:104-110: the rows written to temp_file for the rows read
RewrittenRows(rows, filename, data) ==
  [k \in DOMAIN rows |->
     IF rows[k].filename = filename THEN UpdatedRow(rows[k], data) ELSE rows[k]]

\* csv_logger.py:105,109: updated
RowFound(rows, filename) == \E k \in DOMAIN rows : rows[k].filename = filename

\* csv_logger.py:96-130: the file update_processing_log(filename, data) makes of a
\* file when nothing else touches the folder during the call
UpdatedTable(content, filename, data) ==
  LET read == DictReader(content).rows
  IN Table(IF RowFound(read, filename) THEN RewrittenRows(read, filename, data)
           ELSE Append(read, UpdatedRow(EmptyRow(filename), data)))

\* ------------------------------------------------- processor.py, main thread
\* os.listdir(subfolder_path): the videos and the csv files that exist
ListDir == listing \o SelectSeq(<<log_file, temp_file>>, LAMBDA p : dir[p] # 0)

\* processor.py:55-56
IsVideo(f) == EndsWith(Lower(f), ".mp4")

FoundVideoFiles ==
  LET videos == SelectSeq(ListDir, IsVideo)
  IN [k \in DOMAIN videos |-> PathJoin(subfolder_path, videos[k])]

\* A filter that skips every file the log has a row for.
AlreadyListed(processed_files_log, filename) == filename \in DOMAIN processed_files_log

\* processor.py:69: the file is skipped
AlreadyProcessed(processed_files_log, filename) ==
  /\ filename \in DOMAIN processed_files_log
  /\ Truthy(processed_files_log[filename].processed_datetime)

\* processor.py:66-72
FilesToProcess(files, processed_files_log) ==
  SelectSeq(files, LAMBDA video_path : ~AlreadyProcessed(processed_files_log, Basename(video_path)))

\* processor.py:43-82: the flag is reset, the log is brought up to date and the
\* work list is made; the three ways to leave before any task is submitted.
Begin ==
  /\ mainPc \in {"idle", "returned", "raised", "killed"}
  /\ runs < run_limit
  /\ ui.pc \in {"none", "calling"}
  /\ ui' = IF ui.pc = "calling" THEN [ui EXCEPT !.pc = "processing"] ELSE ui
  /\ runs' = runs + 1
  /\ processing_cancelled' = FALSE
  /\ yielded' = {}
  /\ completed_count' = 0
  /\ all_clips' = <<>>
  /\ errors' = <<>>
  /\ future' = <<>>
  /\ thread' = <<>>
  /\ pipeline' = [f \in Files |-> NotRun]
  /\ interrupted' = {}
  /\ LET found == FoundVideoFiles
         ini == initialize_processing_log(found)
         files_to_process == FilesToProcess(found, ini.processed_files)
         n == IF dir[log_file] = 0 THEN NewInode ELSE dir[log_file]
     IN IF found = <<>>
        THEN /\ mainPc' = "returned"
             /\ raised' = ""
             /\ video_files' = <<>>
             /\ logAtStart' = <<>>
             /\ UNCHANGED <<dir, inode, hadRow>>
        ELSE IF ini.KeyError
        THEN /\ mainPc' = "raised"
             /\ raised' = "KeyError"
             /\ video_files' = <<>>
             /\ logAtStart' = <<>>
             /\ UNCHANGED <<dir, inode, hadRow>>
        ELSE /\ dir' = [dir EXCEPT ![log_file] = n]
             /\ inode' = Reclaim(dir', <<>>, [inode EXCEPT ![n] = ini.content])
             /\ hadRow' = hadRow \cup RowNames(ini.content.rows)
             /\ logAtStart' = ini.content.rows
             /\ raised' = ""
             /\ IF files_to_process = <<>>
                THEN /\ mainPc' = "returned"
                     /\ video_files' = <<>>
                ELSE /\ mainPc' = "submit"
                     /\ video_files' = Sort(files_to_process)
  /\ UNCHANGED <<pv, mg, listing, unreadable, run_limit, max_workers>>

\* processor.py:269-277: one task per file of the work list, unless cancelled
Submit ==
  /\ mainPc = "submit"
  /\ mainPc' = "collect"
  /\ future' = IF processing_cancelled THEN <<>>
               ELSE [k \in DOMAIN video_files |->
                       [state |-> "pending", clips |-> <<>>, error |-> ""]]
  /\ thread' = [k \in DOMAIN future' |-> IdleThread]
  /\ UNCHANGED <<pv, mg, ui, listing, unreadable, dir, inode, run_limit, runs, processing_cancelled, max_workers,
                 video_files, yielded, completed_count, all_clips, errors, raised, pipeline,
                 hadRow, logAtStart, interrupted>>

\* Future.cancel(): only a task no thread has taken is cancelled.
CancelAll(fut) ==
  [k \in DOMAIN fut |->
     IF fut[k].state = "pending" THEN [fut[k] EXCEPT !.state = "cancelled"] ELSE fut[k]]

\* The futures as_completed can hand out next.
Completed == {k \in DOMAIN future : k \notin yielded /\ future[k].state \in {"finished", "raised"}}

\* processor.py:283-288: as_completed hands out a future and the run is cancelled
CollectCancelled ==
  /\ mainPc = "collect"
  /\ processing_cancelled
  /\ Completed # {}
  /\ future' = CancelAll(future)
  /\ mainPc' = "shutdown"
  /\ UNCHANGED <<pv, mg, ui, listing, unreadable, dir, inode, run_limit, runs, processing_cancelled, max_workers,
                 video_files, yielded, completed_count, all_clips, errors, raised, thread,
                 pipeline, hadRow, logAtStart, interrupted>>

\* processor.py:290-305: the result of a task that returned
CollectResult ==
  /\ mainPc = "collect"
  /\ ~processing_cancelled
  /\ \E k \in Completed :
       /\ future[k].state = "finished"
       /\ yielded' = yielded \cup {k}
       /\ completed_count' = completed_count + 1
       /\ all_clips' = all_clips \o future[k].clips
       /\ errors' = IF Truthy(future[k].error)
                    THEN Append(errors, <<Basename(video_files[k]), future[k].error>>)
                    ELSE errors
  /\ UNCHANGED <<pv, mg, ui, listing, unreadable, dir, inode, run_limit, runs, mainPc, processing_cancelled,
                 max_workers, video_files, future, raised, thread, pipeline, hadRow,
                 logAtStart, interrupted>>

\* processor.py:290: future.result() raises what the task raised
CollectException ==
  /\ mainPc = "collect"
  /\ ~processing_cancelled
  /\ \E k \in Completed :
       /\ future[k].state = "raised"
       /\ raised' = future[k].error
  /\ mainPc' = "shutdown"
  /\ UNCHANGED <<pv, mg, ui, listing, unreadable, dir, inode, run_limit, runs, processing_cancelled, max_workers,
                 video_files, future, yielded, completed_count, all_clips, errors, thread,
                 pipeline, hadRow, logAtStart, interrupted>>

\* processor.py:283: every future has been handed out
CollectDone ==
  /\ mainPc = "collect"
  /\ yielded = DOMAIN future
  /\ mainPc' = "shutdown"
  /\ UNCHANGED <<pv, mg, ui, listing, unreadable, dir, inode, run_limit, runs, processing_cancelled, max_workers,
                 video_files, future, yielded, completed_count, all_clips, errors, raised,
                 thread, pipeline, hadRow, logAtStart, interrupted>>

\* processor.py:269,317-324: leaving the with block waits for every task that was
\* not cancelled; then the summary and the return, or the exception goes on up
Shutdown ==
  /\ mainPc = "shutdown"
  /\ \A k \in DOMAIN future : future[k].state \in {"finished", "raised", "cancelled"}
  /\ mainPc' = IF raised = "" THEN "returned" ELSE "raised"
  /\ UNCHANGED <<pv, mg, ui, listing, unreadable, dir, inode, run_limit, runs, processing_cancelled, max_workers,
                 video_files, future, yielded, completed_count, all_clips, errors, raised,
                 thread, pipeline, hadRow, logAtStart, interrupted>>

\* processor.py:43: something outside process_subfolder sets the module global
\* while a run is under way.
Cancel ==
  /\ mainPc \in {"submit", "collect"}
  /\ ~processing_cancelled
  /\ processing_cancelled' = TRUE
  /\ UNCHANGED <<pv, mg, ui, listing, unreadable, dir, inode, run_limit, runs, mainPc, max_workers, video_files,
                 future, yielded, completed_count, all_clips, errors, raised, thread,
                 pipeline, hadRow, logAtStart, interrupted>>

\* --------------------------------------------- processor.py, the pool's threads
RECURSIVE Total(_, _)
Total(clips, key) ==
  IF clips = <<>> THEN 0
  ELSE (IF key = "objects" THEN Head(clips).objects ELSE Head(clips).motion)
       + Total(Tail(clips), key)

\* processor.py:187-208
SuccessData(clips) ==
  [processed_datetime |-> NowStr,
   objects |-> Str(Total(clips, "objects")),
   motion |-> Str(Total(clips, "motion")),
   segment_files |-> [k \in DOMAIN clips |-> Basename(clips[k].filename)]]

\* processor.py:246-251
FailureData ==
  [processed_datetime |-> "", objects |-> "0", motion |-> "0", segment_files |-> <<>>]

\* processor.py:227,246: the except block is entered with exception message msg
EnterHandler(th, msg) ==
  [th EXCEPT !.pc = "open_r", !.handler = TRUE, !.error = msg, !.data = FailureData,
             !.rd = 0, !.wr = 0, !.buf = <<>>, !.updated = FALSE, !.before = NoContent]

\* An exception with message msg is raised in task k inside process_single_video:
\* the try block hands it to the except block, the except block lets it go and
\* the future keeps it.  The threads and the futures after it.
AfterException(k, msg) ==
  IF ~thread[k].handler
  THEN [thread |-> [thread EXCEPT ![k] = EnterHandler(thread[k], msg)],
        future |-> future]
  ELSE [thread |-> [thread EXCEPT ![k] = IdleThread],
        future |-> [future EXCEPT ![k] = [state |-> "raised", clips |-> <<>>, error |-> msg]]]

\* processor.py:226,254: process_single_video returns
AfterReturn(k) ==
  [thread |-> [thread EXCEPT ![k] = IdleThread],
   future |-> [future EXCEPT ![k] =
                 [state |-> "finished",
                  clips |-> IF thread[k].handler THEN <<>> ELSE thread[k].clips,
                  error |-> IF thread[k].handler THEN thread[k].error ELSE ""]]]

Pending == {k \in DOMAIN future : future[k].state = "pending"}
Running == {k \in DOMAIN future : future[k].state = "running"}

\* A free thread of the pool takes the oldest task that waits.
Start(k) ==
  /\ mainPc \in {"collect", "shutdown"}
  /\ k \in Pending
  /\ \A j \in Pending : k <= j
  /\ Cardinality(Running) < max_workers
  /\ future' = [future EXCEPT ![k].state = "running"]
  /\ thread' = [thread EXCEPT ![k] =
                  [IdleThread EXCEPT !.pc = "pipeline", !.video_path = video_files[k]]]
  /\ UNCHANGED <<pv, mg, ui, listing, unreadable, dir, inode, run_limit, runs, mainPc, processing_cancelled,
                 max_workers, video_files, yielded, completed_count, all_clips, errors,
                 raised, pipeline, hadRow, logAtStart, interrupted>>

\* What str(e) of an exception raised inside process_video can be: an exception
\* built without arguments has the empty message.
ExceptionMessages == {"", "error"}

\* What a call of process_video can do: tell that the video cannot be opened and
\* return [] (video.py:59-62), raise, or return the clips it cut.
ProcessVideoOutcomes(video_path) ==
  IF Basename(video_path) \in unreadable
  THEN {[kind |-> "unopened", clips |-> <<>>, error |-> ""]}
  ELSE {[kind |-> "raise", clips |-> <<>>, error |-> m] : m \in ExceptionMessages}
         \cup {[kind |-> "ok", clips |-> cl, error |-> ""] : cl \in ClipLists(video_path, MaxClips)}

\* processor.py:167-208: process_video and the data for the log, or the exception
Pipeline(k) ==
  /\ mainPc \in {"collect", "shutdown"}
  /\ k \in DOMAIN thread
  /\ thread[k].pc = "pipeline"
  /\ \E out \in ProcessVideoOutcomes(thread[k].video_path) :
       IF out.kind = "raise"
       THEN /\ thread' = [thread EXCEPT ![k] = EnterHandler(thread[k], out.error)]
            /\ pipeline' = [pipeline EXCEPT ![Basename(thread[k].video_path)] =
                              [kind |-> "raise", segment_files |-> <<>>]]
       ELSE /\ thread' = [thread EXCEPT ![k].pc = "open_r", ![k].clips = out.clips,
                                        ![k].data = SuccessData(out.clips)]
            /\ pipeline' = [pipeline EXCEPT ![Basename(thread[k].video_path)] =
                              [kind |-> out.kind,
                               segment_files |-> SuccessData(out.clips).segment_files]]
  /\ UNCHANGED <<pv, mg, ui, listing, unreadable, dir, inode, run_limit, runs, mainPc, processing_cancelled,
                 max_workers, video_files, future, yielded, completed_count, all_clips,
                 errors, raised, hadRow, logAtStart, interrupted>>

\* ---------------------------- update_processing_log, one file system call a step
\* A step of a pool thread that leaves the threads as th, the futures as fut, the
\* paths as d and the files as ino.
Step(th, fut, d, ino) ==
  /\ mainPc \in {"collect", "shutdown"}
  /\ thread' = th
  /\ future' = fut
  /\ dir' = d
  /\ inode' = Reclaim(d, th, ino)
  /\ hadRow' = hadRow \cup RowNames(RowsAt(d, ino))
  /\ UNCHANGED <<pv, mg, ui, listing, unreadable, run_limit, runs, mainPc, processing_cancelled, max_workers,
                 video_files, yielded, completed_count, all_clips, errors, raised, pipeline,
                 logAtStart, interrupted>>

At(k, pc) == k \in DOMAIN thread /\ thread[k].pc = pc

\* csv_logger.py:98: open(log_file, 'r')
OpenRead(k) ==
  /\ At(k, "open_r")
  /\ IF dir[log_file] = 0
     THEN LET after == AfterException(k, "FileNotFoundError")
          IN Step(after.thread, after.future, dir, inode)
     ELSE Step([thread EXCEPT ![k].pc = "open_w", ![k].rd = dir[log_file],
                              ![k].before = inode[dir[log_file]]],
               future, dir, inode)

\* csv_logger.py:98: open(temp_file, 'w') creates the file or empties the one that
\* is there
OpenWrite(k) ==
  /\ At(k, "open_w")
  /\ LET n == IF dir[temp_file] = 0 THEN NewInode ELSE dir[temp_file]
     IN Step([thread EXCEPT ![k].pc = "rewrite", ![k].wr = n],
             future,
             [dir EXCEPT ![temp_file] = n],
             [inode EXCEPT ![n] = NoContent])

\* csv_logger.py:99-110: the rows are read and go, rewritten, to the output
\* buffer; a KeyError leaves the with block with the header in the buffer
Rewrite(k) ==
  /\ At(k, "rewrite")
  /\ LET read == DictReader(inode[thread[k].rd])
         filename == Basename(thread[k].video_path)
         after == AfterException(k, "KeyError")
     IN IF read.KeyError
        THEN Step(after.thread, after.future, dir,
                  [inode EXCEPT ![thread[k].wr] = WriteAt0(@, Table(<<>>))])
        ELSE Step([thread EXCEPT ![k].pc = "close",
                                 ![k].buf = RewrittenRows(read.rows, filename, thread[k].data),
                                 ![k].updated = RowFound(read.rows, filename)],
                  future, dir, inode)

\* csv_logger.py:98-110: leaving the with block closes both files; the buffer is
\* written to the file the output handle is bound to
Close(k) ==
  /\ At(k, "close")
  /\ Step([thread EXCEPT ![k].pc = IF thread[k].updated THEN "replace" ELSE "append_open",
                         ![k].rd = 0, ![k].wr = 0, ![k].buf = <<>>],
          future, dir,
          [inode EXCEPT ![thread[k].wr] = WriteAt0(@, Table(thread[k].buf))])

\* csv_logger.py:113-114: open(temp_file, 'a')
AppendOpen(k) ==
  /\ At(k, "append_open")
  /\ LET n == IF dir[temp_file] = 0 THEN NewInode ELSE dir[temp_file]
     IN Step([thread EXCEPT ![k].pc = "append_close", ![k].wr = n],
             future, [dir EXCEPT ![temp_file] = n], inode)

\* csv_logger.py:115-127: the row for the file goes to the end of temp_file
AppendClose(k) ==
  /\ At(k, "append_close")
  /\ Step([thread EXCEPT ![k].pc = "replace", ![k].wr = 0],
          future, dir,
          [inode EXCEPT ![thread[k].wr] =
             WriteAtEnd(@, UpdatedRow(EmptyRow(Basename(thread[k].video_path)),
                                      thread[k].data))])

\* csv_logger.py:130 and processor.py:226,254: os.replace(temp_file, log_file),
\* then process_single_video returns
Replace(k) ==
  /\ At(k, "replace")
  /\ IF dir[temp_file] = 0
     THEN LET after == AfterException(k, "FileNotFoundError")
          IN Step(after.thread, after.future, dir, inode)
     ELSE LET after == AfterReturn(k)
          IN Step(after.thread, after.future,
                  [dir EXCEPT ![log_file] = dir[temp_file], ![temp_file] = 0], inode)

Tasks == 1..NumFiles

Next ==
  \/ Begin
  \/ Submit
  \/ CollectCancelled
  \/ CollectResult
  \/ CollectException
  \/ CollectDone
  \/ Shutdown
  \/ Cancel
  \/ \E k \in Tasks : Start(k)
  \/ \E k \in Tasks : Pipeline(k)
  \/ \E k \in Tasks : OpenRead(k)
  \/ \E k \in Tasks : OpenWrite(k)
  \/ \E k \in Tasks : Rewrite(k)
  \/ \E k \in Tasks : Close(k)
  \/ \E k \in Tasks : AppendOpen(k)
  \/ \E k \in Tasks : AppendClose(k)
  \/ \E k \in Tasks : Replace(k)

Spec == Init /\ [][Next]_vars

\* ------------------------------------------------ one worker, and interruption
\* The steps of update_processing_log between the open of the two files and the
\* return of os.replace.
UpdateSteps == {"open_w", "rewrite", "close", "append_open", "append_close", "replace"}

\* The calls of update_processing_log that are under way.
Updating == {k \in DOMAIN thread : thread[k].pc \in UpdateSteps}

\* The process is killed while a run is under way: its threads are gone, what
\* their output buffers held is never written, the files stay as they are.
Interrupt ==
  /\ mainPc \in {"submit", "collect", "shutdown"}
  /\ mainPc' = "killed"
  /\ interrupted' = {[pc |-> thread[k].pc,
                      filename |-> Basename(thread[k].video_path),
                      data |-> thread[k].data,
                      before |-> thread[k].before] : k \in Updating}
  /\ thread' = <<>>
  /\ future' = <<>>
  /\ inode' = Reclaim(dir, <<>>, inode)
  /\ UNCHANGED <<pv, mg, ui, listing, unreadable, dir, run_limit, runs, processing_cancelled, max_workers,
                 video_files, yielded, completed_count, all_clips, errors, raised, pipeline,
                 hadRow, logAtStart>>

\* MaxRuns calls of process_subfolder on the same folder, one after the other,
\* each with a pool of one thread; a call can be killed.
InitSeq ==
  /\ \E order \in {ByName, ByNameReversed} : InitFolder(order)
  /\ unreadable \in {{}, {FileNames[NumFiles]}}
  /\ max_workers = 1
  /\ run_limit = MaxRuns
  /\ pv = NotCalled
  /\ mg = NotMerging
  /\ ui = NoFrontEnd

\* With one thread no two calls of update_processing_log overlap: the row of the
\* file is always found, os.replace always finds temp_file and no task raises.
NextSeq ==
  \/ Begin
  \/ Submit
  \/ CollectCancelled
  \/ CollectResult
  \/ CollectDone
  \/ Shutdown
  \/ Cancel
  \/ Interrupt
  \/ \E k \in Tasks : Start(k)
  \/ \E k \in Tasks : Pipeline(k)
  \/ \E k \in Tasks : OpenRead(k)
  \/ \E k \in Tasks : OpenWrite(k)
  \/ \E k \in Tasks : Rewrite(k)
  \/ \E k \in Tasks : Close(k)
  \/ \E k \in Tasks : Replace(k)

SpecSeq == InitSeq /\ [][NextSeq]_vars

\* ------------------------------------------------ the notebook front end
\* jupyter_interface.py:43-44, 480-481: main_jupyter has set its module's
\* processing_cancelled to False and shows the Process button; the Cancel
\* button is disabled until a run starts.
FrontEnd ==
  [pc |-> "idle", processing_cancelled |-> FALSE, cancel_disabled |-> TRUE, shown |-> "",
   clicked |-> ""]  \* history: where process_subfolder was when Cancel was pressed

\* The notebook on a folder no run has touched; process_subfolder is given
\* max_workers=None and takes a pool of at least two threads.
InitUI ==
  /\ InitFolder(ByNameReversed)
  /\ unreadable = {FileNames[NumFiles]}
  /\ max_workers = MaxWorkers
  /\ run_limit = 1
  /\ pv = NotCalled
  /\ mg = NotMerging
  /\ ui = FrontEnd

\* jupyter_interface.py:215-437: the Process button; the front end's flag is
\* reset, the Cancel button is enabled and process_subfolder is about to be called
on_process_button_click ==
  /\ ui.pc = "idle"
  /\ runs < run_limit
  /\ ui' = [ui EXCEPT !.pc = "calling", !.processing_cancelled = FALSE,
                      !.cancel_disabled = FALSE, !.shown = "",
                      !.clicked = ""]
  /\ UNCHANGED <<pv, mg, listing, unreadable, dir, inode, run_limit, runs, mainPc,
                 processing_cancelled, max_workers, video_files, future, yielded,
                 completed_count, all_clips, errors, raised, thread, pipeline, hadRow,
                 logAtStart, interrupted>>

\* jupyter_interface.py:207-212: the Cancel button, pressed while the run is
\* under way.  `global processing_cancelled` names the global of
\* jupyter_interface, which is another variable than the global of
\* core/processor.py that process_subfolder reads.
on_cancel_button_click ==
  /\ ui.pc \in {"calling", "processing"}
  /\ ~ui.cancel_disabled
  /\ ~ui.processing_cancelled
  /\ ui' = [ui EXCEPT !.processing_cancelled = TRUE, !.clicked = mainPc]
  /\ UNCHANGED <<pv, mg, listing, unreadable, dir, inode, run_limit, runs, mainPc,
                 processing_cancelled, max_workers, video_files, future, yielded,
                 completed_count, all_clips, errors, raised, thread, pipeline, hadRow,
                 logAtStart, interrupted>>

\* jupyter_interface.py:438-474: process_subfolder has returned; the message
\* is chosen by the front end's flag and the buttons are reset
on_process_returned ==
  /\ ui.pc = "processing"
  /\ mainPc = "returned"
  /\ ui' = [ui EXCEPT !.pc = "idle", !.cancel_disabled = TRUE,
                      !.shown = IF ui.processing_cancelled
                                THEN "Processing Cancelled" ELSE "Processing Complete"]
  /\ UNCHANGED <<pv, mg, listing, unreadable, dir, inode, run_limit, runs, mainPc,
                 processing_cancelled, max_workers, video_files, future, yielded,
                 completed_count, all_clips, errors, raised, thread, pipeline, hadRow,
                 logAtStart, interrupted>>

\* jupyter_interface.py:438: process_subfolder has raised; the handler is left
\* before the message and the buttons stay as they are
on_process_raised ==
  /\ ui.pc = "processing"
  /\ mainPc = "raised"
  /\ ui' = [ui EXCEPT !.pc = "failed"]
  /\ UNCHANGED <<pv, mg, listing, unreadable, dir, inode, run_limit, runs, mainPc,
                 processing_cancelled, max_workers, video_files, future, yielded,
                 completed_count, all_clips, errors, raised, thread, pipeline, hadRow,
                 logAtStart, interrupted>>

\* Nothing but process_subfolder itself assigns the flag of core/processor.py,
\* so the cancelled branch of the completion loop is never taken.
NextUI ==
  \/ on_process_button_click
  \/ on_cancel_button_click
  \/ on_process_returned
  \/ on_process_raised
  \/ Begin
  \/ Submit
  \/ CollectResult
  \/ CollectException
  \/ CollectDone
  \/ Shutdown
  \/ \E k \in Tasks : Start(k)
  \/ \E k \in Tasks : Pipeline(k)
  \/ \E k \in Tasks : OpenRead(k)
  \/ \E k \in Tasks : OpenWrite(k)
  \/ \E k \in Tasks : Rewrite(k)
  \/ \E k \in Tasks : Close(k)
  \/ \E k \in Tasks : AppendOpen(k)
  \/ \E k \in Tasks : AppendClose(k)
  \/ \E k \in Tasks : Replace(k)

SpecUI == InitUI /\ [][NextUI]_vars

\* ------------------------------------------------ csv_logger.py called alone
\* A folder whose progress log does not exist; process_subfolder is not running.
InitLog ==
  /\ InitFolder(ByName)
  /\ unreadable = {}
  /\ max_workers = 1
  /\ run_limit = 0
  /\ ui = NoFrontEnd
  /\ pv = NotCalled
  /\ mg = NotMerging

\* The lists of video paths a caller can pass: the files of the folder, each
\* at most once, in any order.
VideoFileLists ==
  {[k \in DOMAIN l |-> PathJoin(subfolder_path, l[k])] :
     l \in {m \in UNION {[1..n -> Files] : n \in 0..NumFiles} :
              \A i, j \in DOMAIN m : i # j => m[i] # m[j]}}

\* processor.py:202-208, 246-251: the data process_single_video passes on
UpdateData(filename) ==
  {FailureData} \cup
  {SuccessData(cl) : cl \in ClipLists(PathJoin(subfolder_path, filename), MaxClips)}

\* The log is left as content; the threads hold no file.
LogBecomes(content) ==
  LET n == IF dir[log_file] = 0 THEN NewInode ELSE dir[log_file]
  IN /\ dir' = [dir EXCEPT ![log_file] = n, ![temp_file] = 0]
     /\ inode' = Reclaim(dir', <<>>, [inode EXCEPT ![n] = content])
     /\ hadRow' = hadRow \cup RowNames(content.rows)
     /\ UNCHANGED <<pv, mg, ui, listing, unreadable, run_limit, runs, mainPc,
                    processing_cancelled, max_workers, video_files, future, yielded,
                    completed_count, all_clips, errors, raised, thread, pipeline,
                    logAtStart, interrupted>>

\* csv_logger.py:16-76: a call of initialize_processing_log(subfolder_path, video_files)
InitializeProcessingLog(files) ==
  /\ mainPc = "idle"
  /\ ~initialize_processing_log(files).KeyError
  /\ LogBecomes(initialize_processing_log(files).content)

\* csv_logger.py:79-135: a call of update_processing_log(subfolder_path, filename,
\* data); without a log file open() raises at line 98 and nothing is written
UpdateProcessingLog(filename, data) ==
  /\ mainPc = "idle"
  /\ dir[log_file] # 0
  /\ LogBecomes(UpdatedTable(inode[dir[log_file]], filename, data))

NextLog ==
  \/ \E files \in VideoFileLists : InitializeProcessingLog(files)
  \/ \E filename \in Files : \E data \in UpdateData(filename) : UpdateProcessingLog(filename, data)

SpecLog == InitLog /\ [][NextLog]_vars


\* ------------------------------------------------------------------ properties
\* The names of the files of the run's work list.
WorkList == {Basename(video_files[k]) : k \in DOMAIN video_files}

\* The rows of a table that carry the filename.
RowsOf(rows, filename) == {rows[k] : k \in {j \in DOMAIN rows : rows[j].filename = filename}}

\* A task for the file has been started in the run.
Started(filename) ==
  \/ pipeline[filename].kind # "none"
  \/ \E k \in DOMAIN thread : thread[k].video_path = PathJoin(subfolder_path, filename)

\* What processing_log.csv holds.
LogContent == IF dir[log_file] = 0 THEN NoContent ELSE inode[dir[log_file]]

\* C1: once a run has made its work list, a candidate file whose record had a
\* non-empty processed_datetime when the run began is not in the work list and no
\* task is started for it; a candidate whose record had an empty
\* processed_datetime is in the work list.
C1_Resumability ==
  runs > 0 =>
    \A X \in Range(listing) :
      LET recs == RowsOf(logAtStart, X)
      IN /\ (recs # {} /\ \A r \in recs : r.processed_datetime # "")
              => (X \notin WorkList /\ ~Started(X))
         /\ (recs # {} /\ \A r \in recs : r.processed_datetime = "")
              => X \in WorkList

\* A second run has begun with one file recorded as done, which it leaves out,
\* and one file whose record an earlier failure left empty, which it takes up.
C1_Witness ==
  /\ runs = 2
  /\ mainPc = "collect"
  /\ \E X \in Range(listing) :
       /\ \E r \in RowsOf(logAtStart, X) : r.processed_datetime # ""
       /\ X \notin WorkList
  /\ \E Y \in Range(listing) :
       /\ \E r \in RowsOf(logAtStart, Y) : r.processed_datetime = "" /\ r.objects = "0"
       /\ Y \in WorkList
       /\ Started(Y)

\* The row of the file shows what the task recorded: on success a completion
\* time, the totals of the clips and their file names; on failure no completion
\* time, zero totals and the empty list.
RecordOf(row, failed, clips) ==
  IF failed
  THEN /\ row.processed_datetime = ""
       /\ row.objects = "0"
       /\ row.motion = "0"
       /\ row.segment_files = "[]"
  ELSE /\ row.processed_datetime # ""
       /\ row.objects = Str(Total(clips, "objects"))
       /\ row.motion = Str(Total(clips, "motion"))
       /\ row.segment_files = JsonDumps([j \in DOMAIN clips |-> Basename(clips[j].filename)])

\* C2: in the step in which a file task finishes, the progress log holds the
\* record of the file rewritten with the outcome of the task.
C2_RecordRewritten ==
  [][\A k \in Tasks :
       (/\ k \in DOMAIN future
        /\ k \in DOMAIN future'
        /\ future[k].state = "running"
        /\ future'[k].state \in {"finished", "raised"})
       => LET mine == RowsOf(RowsAt(dir', inode'), Basename(thread[k].video_path))
          IN /\ mine # {}
             /\ \A r \in mine : RecordOf(r, thread[k].handler, thread[k].clips)]_vars

\* C3: in a run with two or more workers at most one worker is between the
\* start of the read of processing_log.csv and the os.replace of the temp file.
C3_UpdatesSerialized == max_workers >= 2 => Cardinality(Updating) <= 1

\* C4: when a run returns without cancellation, the record of every file whose
\* pipeline completed without an exception has a non-empty processed_datetime
\* and the segment_files its own task wrote.
C4_NoUpdateLost ==
  (mainPc = "returned" /\ ~processing_cancelled) =>
    \A f \in WorkList :
      pipeline[f].kind \in {"ok", "unopened"} =>
        /\ RowsOf(LogRows, f) # {}
        /\ \A r \in RowsOf(LogRows, f) :
             /\ r.processed_datetime # ""
             /\ r.segment_files = JsonDumps(pipeline[f].segment_files)

\* C5: every filename that has had a row in the progress log has a row in it.
C5_NeverDeleted == hadRow \subseteq RowNames(LogRows)

\* The table is whole: the header and one row for every video of the folder.
Complete(content) ==
  /\ content.hdr
  /\ RowNames(content.rows) = Range(listing)
  /\ Len(content.rows) = Len(listing)

\* C6: while one call of update_processing_log is under way, and after a kill
\* has cut it short at any step, processing_log.csv holds the whole table from
\* before the call or the whole table the call makes of it.
C6_UpdateAtomic ==
  /\ \A k \in Updating :
       /\ Complete(LogContent)
       /\ LogContent \in {thread[k].before,
                          UpdatedTable(thread[k].before, Basename(thread[k].video_path),
                                       thread[k].data)}
  /\ mainPc = "killed" =>
       \A c \in interrupted :
         /\ Complete(LogContent)
         /\ LogContent \in {c.before, UpdatedTable(c.before, c.filename, c.data)}

\* A kill has cut a call short after the rows went to the output buffer and
\* before the files were closed; the log is the table from before the call.
C6_Witness ==
  /\ mainPc = "killed"
  /\ \E c \in interrupted :
       /\ c.pc = "close"
       /\ c.data.processed_datetime # ""
       /\ LogContent = c.before
       /\ LogContent # UpdatedTable(c.before, c.filename, c.data)

\* The pairs of errors that name the file.
ErrorsOf(filename) == {k \in DOMAIN errors : errors[k][1] = filename}

\* C7: when a run that was not cancelled has ended, for every file whose
\* pipeline raised the run has returned, errors holds one pair for the file and
\* every other file of the work list has been processed.
C7_ErrorsIsolated ==
  (mainPc \in {"returned", "raised"} /\ ~processing_cancelled) =>
    \A f \in WorkList :
      pipeline[f].kind = "raise" =>
        /\ mainPc = "returned"
        /\ Cardinality(ErrorsOf(f)) = 1
        /\ \A g \in WorkList : pipeline[g].kind # "none"

\* C8: process_subfolder does not end with an exception a file task raised.
C8_NoErrorEscapes ==
  mainPc = "raised" => \A k \in DOMAIN future : future[k].state # "raised"

\* C9: a run that has ended has reached its summary and returned, and if it was
\* not cancelled completed_count is the size of the work list and every file of
\* the work list has been counted.
C9_EndsWithSummary ==
  (runs > 0 /\ mainPc \in {"returned", "raised"}) =>
    /\ mainPc = "returned"
    /\ ~processing_cancelled =>
         /\ completed_count = Len(video_files)
         /\ yielded = DOMAIN video_files

\* C10: when a run returns, every file whose processing failed in it, a file
\* whose video could not be opened included, has an empty processed_datetime.
C10_FailedStayEligible ==
  mainPc = "returned" =>
    \A f \in WorkList :
      pipeline[f].kind \in {"raise", "unopened"} =>
        /\ RowsOf(LogRows, f) # {}
        /\ \A r \in RowsOf(LogRows, f) : r.processed_datetime = ""

\* ------------------------------------------- video.py, the merge of segments
\* The orchestrator stands still: no call of process_subfolder is made.
NoRuns ==
  /\ InitFolder(ByName)
  /\ unreadable = {}
  /\ max_workers = 1
  /\ run_limit = 0
  /\ ui = NoFrontEnd

\* A segment that reaches back to the first frame of the video.
SegmentFromFirstFrame(start, end, motion, objects) ==
  [start |-> 0, end |-> end, motion |-> motion, objects |-> objects]

\* A segment that forgets why it was opened.
SegmentWithoutFlags(start, end, motion, objects) ==
  [start |-> start, end |-> end, motion |-> FALSE, objects |-> FALSE]

\* video.py:208-213: a segment of the segment tracking
Segment(start, end, motion, objects) ==
  [start |-> start, end |-> end, motion |-> motion, objects |-> objects]

\* A list with its elements in the opposite order.
ReverseOrder(list) == [k \in DOMAIN list |-> list[Len(list) + 1 - k]]

\* A segment put behind all others, wherever it starts.
InsertAtEnd(sorted, x) == Append(sorted, x)

\* The place of a segment in a list sorted by start: behind the segments that
\* do not start later.
RECURSIVE InsertByStart(_, _)
InsertByStart(sorted, x) ==
  IF sorted = <<>> THEN <<x>>
  ELSE IF x.start < Head(sorted).start THEN <<x>> \o sorted
  ELSE <<Head(sorted)>> \o InsertByStart(Tail(sorted), x)

\* video.py:257: segments.sort(key=lambda x: x['start']), a stable sort
RECURSIVE SortByStart(_)
SortByStart(list) ==
  IF list = <<>> THEN <<>>
  ELSE InsertByStart(SortByStart(SubSeq(list, 1, Len(list) - 1)), list[Len(list)])

Max(a, b) == IF a >= b THEN a ELSE b
Min(a, b) == IF a <= b THEN a ELSE b

\* A merge that keeps the end of the segment that came last.
AbsorbKeepingLaterEnd(last_segment, segment) ==
  [last_segment EXCEPT !.end = segment.end,
                       !.motion = last_segment.motion \/ segment.motion,
                       !.objects = last_segment.objects \/ segment.objects]

\* video.py:269-271: the last accepted segment after it took in segment
Absorb(last_segment, segment) ==
  [last_segment EXCEPT !.end = Max(last_segment.end, segment.end),
                       !.motion = last_segment.motion \/ segment.motion,
                       !.objects = last_segment.objects \/ segment.objects]

\* video.py:260-274: the walk over the sorted segments
RECURSIVE MergeInto(_, _)
MergeInto(merged_segments, segments) ==
  IF segments = <<>> THEN merged_segments
  ELSE LET segment == Head(segments)
           last_segment == merged_segments[Len(merged_segments)]
       IN IF merged_segments = <<>>
          THEN MergeInto(<<segment>>, Tail(segments))
          ELSE IF segment.start <= last_segment.end
          THEN MergeInto([merged_segments EXCEPT ![Len(merged_segments)] =
                            Absorb(last_segment, segment)],
                         Tail(segments))
          ELSE MergeInto(Append(merged_segments, segment), Tail(segments))

\* video.py:256-274: merged_segments for the segments the loop has closed
MergeSegments(segments) == MergeInto(<<>>, SortByStart(segments))

\* The segments over frames 0..MaxFrame: motion or objects or both.
SegmentValues ==
  {Segment(iv[1], iv[2], fl[1], fl[2]) :
     iv \in {x \in (0..MaxFrame) \X (0..MaxFrame) : x[1] <= x[2]},
     fl \in {<<TRUE, FALSE>>, <<FALSE, TRUE>>}}

\* The lists of up to MaxSegments segments, in any order.
SegmentLists == UNION {[1..n -> SegmentValues] : n \in 0..MaxSegments}

InitMerge ==
  /\ NoRuns
  /\ pv = NotCalled
  /\ mg \in {[pc |-> "input", segments |-> l, merged_segments |-> <<>>, again |-> <<>>] :
               l \in SegmentLists}

\* video.py:256-274 applied to the list of segments
MergeOnce ==
  /\ mg.pc = "input"
  /\ mg' = [mg EXCEPT !.pc = "merged", !.merged_segments = MergeSegments(mg.segments)]
  /\ UNCHANGED <<pv, ui, listing, unreadable, dir, inode, run_limit, runs, mainPc,
                 processing_cancelled, max_workers, video_files, future, yielded,
                 completed_count, all_clips, errors, raised, thread, pipeline, hadRow,
                 logAtStart, interrupted>>

\* video.py:256-274 applied to its own output
MergeAgain ==
  /\ mg.pc = "merged"
  /\ mg' = [mg EXCEPT !.pc = "twice", !.again = MergeSegments(mg.merged_segments)]
  /\ UNCHANGED <<pv, ui, listing, unreadable, dir, inode, run_limit, runs, mainPc,
                 processing_cancelled, max_workers, video_files, future, yielded,
                 completed_count, all_clips, errors, raised, thread, pipeline, hadRow,
                 logAtStart, interrupted>>

NextMerge == MergeOnce \/ MergeAgain

SpecMerge == InitMerge /\ [][NextMerge]_vars

\* ------------------------------------------------ video.py, process_video
\* video.py:152: the motion history holds the last ten scores
HistoryCap == 10

\* video.py:25: motion_threshold=0.01; motion scores are counted in thousandths
MotionThreshold == 10

\* video.py:26: skip_frames=10
DefaultSkipFrames == 10

\* video.py:66-67: the width and the height of the frames of the modelled videos
FrameWidth == 200

FrameHeight == 100

\* One detection of the model: its class, its confidence (in hundredths) and the
\* area of its box (in pixels of the frame the model was given).
Box(cls, conf, area) == [cls |-> cls, conf |-> conf, area |-> area]

\* A person that fills the frame at half its size, found with confidence 0.90.
PlainBox == Box(0, 90, (FrameWidth \div 2) * (FrameHeight \div 2))

\* A video file: whether cv2.VideoCapture opens it, its frame rate and frame
\* count, the frames whose picture differs from the frame before, the motion
\* score (in thousandths) of an analysed frame whose picture differs from the
\* analysed frame before it, and the frames in which the model finds an object,
\* with the detections it returns there (one that passes the class, confidence
\* and area tests, unless WithBoxes says otherwise).
Video(readable, fps, total_frames, changed, motion_score, detections) ==
  [readable |-> readable, fps |-> fps, total_frames |-> total_frames, changed |-> changed,
   motion_score |-> motion_score, detections |-> detections,
   frame_width |-> FrameWidth, frame_height |-> FrameHeight,
   boxes |-> [f \in detections |-> <<PlainBox>>]]

\* The video with the detections the model returns, frame by frame.
WithBoxes(video, boxes) == [video EXCEPT !.detections = DOMAIN boxes, !.boxes = boxes]

\* process_video(video_path, output_dir, model, buffer_seconds=..., skip_frames=...,
\* adaptive_skip=..., progress_callback=...) at its entry.
Call(video, buffer_seconds, skip_frames, adaptive_skip) ==
  [pc |-> "open",
   video_path |-> PathJoin(subfolder_path, FileNames[1]),
   video |-> video,
   buffer_seconds |-> buffer_seconds,
   base_skip_frames |-> skip_frames,
   adaptive_skip |-> adaptive_skip,
   confidence |-> 45,
   min_object_area_ratio |-> 1,
   target_classes |-> <<>>,
   resize_factor |-> 50,
   skip_frames |-> skip_frames,
   buffer_frames |-> 0,
   prev_frame |-> -1,
   motion_history |-> <<>>,
   current_frame_idx |-> 0,
   current_segment |-> <<>>,
   segments |-> <<>>,
   detection_count |-> 0,
   segment_count |-> 0,
   merged_segments |-> <<>>,
   i |-> 0,
   extracted_clips |-> <<>>,
   calls |-> <<>>,
   analyzed |-> <<>>,
   active |-> {},
   cuts |-> <<>>,
   grabbed |-> 0,
   position |-> 0,
   scores |-> <<>>,
   motion_flags |-> <<>>,
   detector_calls |-> <<>>,
   object_flags |-> <<>>]

\* The call with the detection settings confidence (in hundredths),
\* min_object_area_ratio (in thousandths), target_classes (<<>> for None, or the
\* set in a tuple) and resize_factor (in hundredths).
Detecting(call, confidence, min_object_area_ratio, target_classes, resize_factor) ==
  [call EXCEPT !.confidence = confidence, !.min_object_area_ratio = min_object_area_ratio,
               !.target_classes = target_classes, !.resize_factor = resize_factor]

\* A stride scaled at every frame rate but 30.
AdaptiveSkipOffThirty(skip_frames, fps, adaptive_skip) ==
  IF ~adaptive_skip THEN skip_frames
  ELSE IF fps > 30 THEN (skip_frames * fps) \div 30
  ELSE IF fps < 30 THEN Max(1, (skip_frames * fps) \div 30)
  ELSE skip_frames

\* video.py:73-79: the stride for the frame rate.  int(skip_frames * (fps / 30))
\* is the whole part of skip_frames * fps / 30 for every skip_frames below 25
\* and every fps up to 240.
AdaptiveSkip(skip_frames, fps, adaptive_skip) ==
  IF ~adaptive_skip THEN skip_frames
  ELSE IF fps > 30 THEN (skip_frames * fps) \div 30
  ELSE IF fps < 15 THEN Max(1, (skip_frames * fps) \div 30)
  ELSE skip_frames

\* video.py:120: min(100, int((current_frame_idx / total_frames) * 100)).  The
\* float product is the exact percentage, except that 0.29, 0.57 and 0.58 times
\* 100 fall just under 29, 57 and 58.
Progress(current_frame_idx, total_frames) ==
  LET exact == (current_frame_idx * 100) \div total_frames
      under == /\ (current_frame_idx * 100) % total_frames = 0
               /\ exact \in {29, 57, 58}
  IN Min(100, IF under THEN exact - 1 ELSE exact)

RECURSIVE SumOf(_)
SumOf(seq) == IF seq = <<>> THEN 0 ELSE Head(seq) + SumOf(Tail(seq))

\* A history that keeps every score.
PushedUncapped(motion_history, motion_score) == Append(motion_history, motion_score)

\* video.py:151-153: the history after a score is added
Pushed(motion_history, motion_score) ==
  LET longer == Append(motion_history, motion_score)
  IN IF Len(longer) > HistoryCap THEN Tail(longer) ELSE longer

\* video.py:142-148: the motion score of the frame against the analysed frame
\* before it
MotionScore(call, idx) ==
  IF \E f \in call.video.changed : call.prev_frame < f /\ f <= idx
  THEN call.video.motion_score
  ELSE 0

\* Motion judged by the last score alone.
LastScoreDetected(motion_history) ==
  motion_history[Len(motion_history)] > MotionThreshold

\* video.py:156-157: avg_motion > motion_threshold
MotionDetected(motion_history) ==
  SumOf(motion_history) > MotionThreshold * Len(motion_history)

\* video.py:167: what model(frame) returns for the frame
Results(call, idx) ==
  IF idx \in DOMAIN call.video.boxes THEN call.video.boxes[idx] ELSE <<>>

\* video.py:99,174-193: the detection passes the class, confidence and area
\* tests; min_object_area is the ratio times the width and the height of the
\* video, and the box is measured in the frame the model was given.
Survives(box, call) ==
  /\ call.target_classes = <<>> \/ box.cls \in call.target_classes[1]
  /\ box.conf >= call.confidence
  /\ box.area * 1000 >=
       call.min_object_area_ratio * call.video.frame_width * call.video.frame_height

\* The model returns detections for the frame and every one of them passes.
EveryDetectionSurvives(call, idx) ==
  /\ Results(call, idx) # <<>>
  /\ \A k \in DOMAIN Results(call, idx) : Survives(Results(call, idx)[k], call)

\* video.py:163-201: objects_detected for the frame, when the model is run on it
ObjectsDetected(call, idx) ==
  \E k \in DOMAIN Results(call, idx) : Survives(Results(call, idx)[k], call)

\* A segment that is ended where the next one would begin.
ClosedWithoutBuffer(current_segment, buffer_frames) == current_segment

\* video.py:223: the trailing buffer of a segment closed inside the loop
Closed(current_segment, buffer_frames) ==
  [current_segment EXCEPT !.end = current_segment.end + buffer_frames]

\* video.py:203-230: the segment tracking for one analysed frame: the open
\* segment, the closed segments and their count after it
Track(call, idx, motion_detected, objects_detected) ==
  LET open == call.current_segment # <<>>
      current_segment == call.current_segment[1]
      same == [current_segment |-> call.current_segment, segments |-> call.segments,
               segment_count |-> call.segment_count]
  IN IF motion_detected \/ objects_detected
     THEN IF ~open
          THEN [same EXCEPT !.current_segment =
                  <<Segment(Max(0, idx - call.buffer_frames), idx, motion_detected,
                            objects_detected)>>]
          ELSE [same EXCEPT !.current_segment =
                  <<[current_segment EXCEPT
                       !.end = idx,
                       !.motion = current_segment.motion \/ motion_detected,
                       !.objects = current_segment.objects \/ objects_detected]>>]
     ELSE IF open /\ idx - current_segment.end > call.buffer_frames
          THEN [current_segment |-> <<>>,
                segments |-> Append(call.segments, Closed(current_segment, call.buffer_frames)),
                segment_count |-> call.segment_count + 1]
          ELSE same

\* The segments after the loop when the last frame is counted in seconds.
WithFinalSegmentInSeconds(call) ==
  IF call.current_segment = <<>> THEN call.segments
  ELSE Append(call.segments,
              [call.current_segment[1] EXCEPT
                 !.end = Min(call.current_segment[1].end + call.buffer_frames,
                             call.video.total_frames \div call.video.fps - 1)])

\* The segments after the loop when the last segment is not held to the video.
WithFinalSegmentUnclamped(call) ==
  IF call.current_segment = <<>> THEN call.segments
  ELSE Append(call.segments, Closed(call.current_segment[1], call.buffer_frames))

\* video.py:245-251: the segments after the loop
WithFinalSegment(call) ==
  IF call.current_segment = <<>> THEN call.segments
  ELSE Append(call.segments,
              [call.current_segment[1] EXCEPT
                 !.end = Min(call.current_segment[1].end + call.buffer_frames,
                             call.video.total_frames - 1)])

\* No segment is too short to be cut.
NeverTooShort(segment, fps) == FALSE

\* video.py:282-286: the segment is too short to be cut
TooShort(segment, fps) == segment.end - segment.start < fps

\* video.py:289-331: the entry of extracted_clips for merged segment number i
\* (from 0); the times in milliseconds
ExtractedClip(call, i, segment) ==
  LET fps == call.video.fps
  IN [ClipInfo(call.video_path, i + 1, segment.start \div fps, segment.end \div fps,
               segment.objects, segment.motion)
        EXCEPT !.start_time = (segment.start * 1000) \div fps,
               !.end_time = (segment.end * 1000) \div fps,
               !.duration = ((segment.end - segment.start) * 1000) \div fps]

\* A 30 fps video of 300 frames whose picture changes between second 4 and
\* second 6, analysed with a buffer of 2 seconds and the default stride.
EndToEnd ==
  {Call(Video(TRUE, 30, 300, changed, score, detections), 2, DefaultSkipFrames, TRUE) :
     changed \in {120..180, 121..180}, score \in {10, 25, 1000},
     detections \in {{}, {150}}}

\* A 10 fps video whose picture changes once, at frame 100.
Isolated ==
  {Call(Video(TRUE, 10, total_frames, {100}, score, {}), buffer_seconds, skip_frames, FALSE) :
     total_frames \in {120, 151, 200}, score \in {25, 55}, buffer_seconds \in {0, 5},
     skip_frames \in {20, 50}}

\* A video of one frame a second, every frame analysed, whose picture changes
\* twice: the motion flag is set for frames 1..10 and, after a gap, for ten more.
Bursts ==
  {Call(Video(TRUE, 1, 30, {1, 11 + gap}, 1000, {}), buffer_seconds, 1, FALSE) :
     gap \in 1..MaxGap, buffer_seconds \in 0..MaxBuffer}

\* A video of one frame a second, every frame analysed with a buffer of two
\* frames, whose picture changes three times: the first two bursts are three
\* frames apart, the third is far from them.
ThreeBursts == {Call(Video(TRUE, 1, 60, {1, 14, 40}, 1000, {}), 2, 1, FALSE)}

\* Still videos of 40 frames with an object in frame 0, at several frame rates
\* and strides.
Strides ==
  {Call(Video(TRUE, sf[2], 40, {}, 0, {0}), 1, sf[1], adaptive_skip) :
     sf \in {<<15, 60>>, <<15, 10>>, <<15, 24>>, <<2, 10>>, <<10, 14>>, <<10, 15>>,
             <<10, 30>>, <<10, 31>>},
     adaptive_skip \in BOOLEAN}

\* A video of one frame a second, every frame analysed without buffer: the
\* picture changes at frame 1 and an object stands in frame 27, and possibly
\* in frame 3.
Mixed ==
  {Call(Video(TRUE, 1, 30, {1}, 1000, detections), 0, 1, FALSE) :
     detections \in {{27}, {3, 27}}}

\* The detections of the modelled videos: of class 0 or 1, with a confidence
\* just under or at 0.45, and with an area around 0.001 of the frame at half
\* size (5 pixels) and around 0.001 of the frame at full size (20 pixels).
BoxValues == {Box(cls, conf, area) : cls \in {0, 1}, conf \in {44, 45}, area \in {4, 5, 19, 20}}

\* The lists of up to MaxBoxes detections.
BoxLists == UNION {[1..n -> BoxValues] : n \in 0..MaxBoxes}

\* Still videos of 6 frames at 10 fps, every frame analysed, in which the model
\* would find a plain object twice in frame 0, once in frame 1 and the listed
\* detections in frame 3, under several detection settings.
Detected ==
  {Detecting(Call(WithBoxes(Video(TRUE, 10, 6, {}, 0, {}),
                            (0 :> <<PlainBox, PlainBox>>) @@ (1 :> <<PlainBox>>) @@ (3 :> boxes)),
                  0, 1, FALSE),
             45, 1, target_classes, resize_factor) :
     boxes \in BoxLists, target_classes \in {<<>>, <<{0}>>}, resize_factor \in {50, 100}}

\* A file cv2.VideoCapture cannot open.
Unopened == {Call(Video(FALSE, 0, 0, {}, 0, {}), 5, DefaultSkipFrames, TRUE)}

InitVideo ==
  /\ NoRuns
  /\ mg = NotMerging
  /\ pv \in EndToEnd \cup Isolated \cup Bursts \cup ThreeBursts \cup Strides \cup Mixed \cup Detected \cup Unopened

\* video.py:59-103: the video is opened, the stride and the buffer are fixed
PvOpen ==
  /\ pv.pc = "open"
  /\ pv' = IF ~pv.video.readable
           THEN [pv EXCEPT !.pc = "returned"]
           ELSE [pv EXCEPT !.pc = "loop",
                           !.skip_frames = AdaptiveSkip(pv.skip_frames, pv.video.fps,
                                                        pv.adaptive_skip),
                           !.buffer_frames = pv.buffer_seconds * pv.video.fps]
  /\ UNCHANGED <<mg, ui, listing, unreadable, dir, inode, run_limit, runs, mainPc,
                 processing_cancelled, max_workers, video_files, future, yielded,
                 completed_count, all_clips, errors, raised, thread, pipeline, hadRow,
                 logAtStart, interrupted>>

\* A skip branch that leaves the frame index as it is.
PvSkipWithoutCount ==
  /\ pv.pc = "loop"
  /\ pv.current_frame_idx % pv.skip_frames # 0
  /\ pv' = [pv EXCEPT !.grabbed = @ + 1,
                      !.position = IF @ < pv.video.total_frames THEN @ + 1 ELSE @]
  /\ UNCHANGED <<mg, ui, listing, unreadable, dir, inode, run_limit, runs, mainPc,
                 processing_cancelled, max_workers, video_files, future, yielded,
                 completed_count, all_clips, errors, raised, thread, pipeline, hadRow,
                 logAtStart, interrupted>>

\* video.py:108-112: a frame between two analysed frames is passed over
PvSkip ==
  /\ pv.pc = "loop"
  /\ pv.current_frame_idx % pv.skip_frames # 0
  /\ pv' = [pv EXCEPT !.current_frame_idx = @ + 1,
                      !.grabbed = @ + 1,
                      !.position = IF @ < pv.video.total_frames THEN @ + 1 ELSE @]
  /\ UNCHANGED <<mg, ui, listing, unreadable, dir, inode, run_limit, runs, mainPc,
                 processing_cancelled, max_workers, video_files, future, yielded,
                 completed_count, all_clips, errors, raised, thread, pipeline, hadRow,
                 logAtStart, interrupted>>

\* video.py:115-233: a frame is read and analysed
PvAnalyze ==
  /\ pv.pc = "loop"
  /\ pv.current_frame_idx % pv.skip_frames = 0
  /\ pv.position < pv.video.total_frames
  /\ LET idx == pv.current_frame_idx
         motion_history == IF pv.prev_frame >= 0
                           THEN Pushed(pv.motion_history, MotionScore(pv, idx))
                           ELSE pv.motion_history
         motion_detected == pv.prev_frame >= 0 /\ MotionDetected(motion_history)
         model_run == idx % (pv.skip_frames * 3) = 0
         objects_detected == model_run /\ ObjectsDetected(pv, pv.position)
         tracked == Track(pv, idx, motion_detected, objects_detected)
     IN pv' = [pv EXCEPT
                 !.calls = Append(@, <<Progress(idx, pv.video.total_frames),
                                       pv.detection_count, pv.segment_count>>),
                 !.analyzed = Append(@, idx),
                 !.position = @ + 1,
                 !.scores = IF pv.prev_frame >= 0 THEN Append(@, MotionScore(pv, idx)) ELSE @,
                 !.motion_flags = Append(@, motion_detected),
                 !.detector_calls = IF model_run THEN Append(@, idx) ELSE @,
                 !.object_flags = Append(@, objects_detected),
                 !.active = IF motion_detected \/ objects_detected THEN @ \cup {idx} ELSE @,
                 !.motion_history = motion_history,
                 !.prev_frame = idx,
                 !.detection_count = IF objects_detected THEN @ + 1 ELSE @,
                 !.current_segment = tracked.current_segment,
                 !.segments = tracked.segments,
                 !.segment_count = tracked.segment_count,
                 !.current_frame_idx = idx + 1]
  /\ UNCHANGED <<mg, ui, listing, unreadable, dir, inode, run_limit, runs, mainPc,
                 processing_cancelled, max_workers, video_files, future, yielded,
                 completed_count, all_clips, errors, raised, thread, pipeline, hadRow,
                 logAtStart, interrupted>>

\* video.py:115-117 and 244-274: no frame is left; the open segment is closed
\* and the segments are merged
PvEndOfStream ==
  /\ pv.pc = "loop"
  /\ pv.current_frame_idx % pv.skip_frames = 0
  /\ pv.position >= pv.video.total_frames
  /\ pv' = [pv EXCEPT
              !.pc = "extract",
              !.segments = WithFinalSegment(pv),
              !.segment_count = IF pv.current_segment = <<>> THEN @ ELSE @ + 1,
              !.current_segment = <<>>,
              !.merged_segments = MergeSegments(WithFinalSegment(pv)),
              !.i = 0]
  /\ UNCHANGED <<mg, ui, listing, unreadable, dir, inode, run_limit, runs, mainPc,
                 processing_cancelled, max_workers, video_files, future, yielded,
                 completed_count, all_clips, errors, raised, thread, pipeline, hadRow,
                 logAtStart, interrupted>>

\* An extraction loop that a failed cut ends.
PvExtractUntilFailure ==
  /\ pv.pc = "extract"
  /\ pv.i < Len(pv.merged_segments)
  /\ LET segment == pv.merged_segments[pv.i + 1]
     IN IF TooShort(segment, pv.video.fps)
        THEN pv' = [pv EXCEPT !.i = @ + 1, !.cuts = Append(@, "skipped")]
        ELSE \E written \in BOOLEAN :
               pv' = [pv EXCEPT
                        !.i = IF written THEN @ + 1 ELSE Len(pv.merged_segments),
                        !.cuts = Append(@, IF written THEN "cut" ELSE "failed"),
                        !.extracted_clips =
                          IF written THEN Append(@, ExtractedClip(pv, pv.i, segment)) ELSE @]
  /\ UNCHANGED <<mg, ui, listing, unreadable, dir, inode, run_limit, runs, mainPc,
                 processing_cancelled, max_workers, video_files, future, yielded,
                 completed_count, all_clips, errors, raised, thread, pipeline, hadRow,
                 logAtStart, interrupted>>

\* video.py:279-336: the next merged segment is skipped, cut, or its cut fails
PvExtract ==
  /\ pv.pc = "extract"
  /\ pv.i < Len(pv.merged_segments)
  /\ LET segment == pv.merged_segments[pv.i + 1]
     IN IF TooShort(segment, pv.video.fps)
        THEN pv' = [pv EXCEPT !.i = @ + 1, !.cuts = Append(@, "skipped")]
        ELSE \E written \in BOOLEAN :
               pv' = [pv EXCEPT
                        !.i = @ + 1,
                        !.cuts = Append(@, IF written THEN "cut" ELSE "failed"),
                        !.extracted_clips =
                          IF written THEN Append(@, ExtractedClip(pv, pv.i, segment)) ELSE @]
  /\ UNCHANGED <<mg, ui, listing, unreadable, dir, inode, run_limit, runs, mainPc,
                 processing_cancelled, max_workers, video_files, future, yielded,
                 completed_count, all_clips, errors, raised, thread, pipeline, hadRow,
                 logAtStart, interrupted>>

\* video.py:338-344: the last progress update and the return
PvFinish ==
  /\ pv.pc = "extract"
  /\ pv.i = Len(pv.merged_segments)
  /\ pv' = [pv EXCEPT !.pc = "returned",
                      !.calls = Append(@, <<100, pv.detection_count, pv.segment_count>>)]
  /\ UNCHANGED <<mg, ui, listing, unreadable, dir, inode, run_limit, runs, mainPc,
                 processing_cancelled, max_workers, video_files, future, yielded,
                 completed_count, all_clips, errors, raised, thread, pipeline, hadRow,
                 logAtStart, interrupted>>

NextVideo ==
  \/ PvOpen
  \/ PvSkip
  \/ PvAnalyze
  \/ PvEndOfStream
  \/ PvExtract
  \/ PvFinish

SpecVideo == InitVideo /\ [][NextVideo]_vars

\* process_video runs in one thread that always takes its next step.
SpecVideoFair == SpecVideo /\ WF_vars(NextVideo)

\* The sort-and-merge step on any list of segments, or inside a call of
\* process_video.
InitPipeline == InitMerge \/ InitVideo

NextPipeline ==
  \/ MergeOnce
  \/ MergeAgain
  \/ PvOpen
  \/ PvSkip
  \/ PvAnalyze
  \/ PvEndOfStream
  \/ PvExtract
  \/ PvFinish

SpecPipeline == InitPipeline /\ [][NextPipeline]_vars

\* C13: the sort-and-merge step applied to its own output gives the same list.
C13_MergeIdempotent == mg.pc = "twice" => mg.again = mg.merged_segments

\* Three segments given out of order, two of which the merge joined, have been
\* merged twice.
C13_Witness ==
  /\ mg.pc = "twice"
  /\ Len(mg.segments) = 3
  /\ mg.segments # SortByStart(mg.segments)
  /\ Len(mg.merged_segments) = 2
  /\ mg.again = mg.merged_segments

\* C14: two segments of which the later start is not after the earlier end are
\* merged into one segment with the smaller start, the larger end and the
\* flags of both.
C14_MergeOfTwo ==
  (mg.pc \in {"merged", "twice"} /\ Len(mg.segments) = 2) =>
    LET a == mg.segments[1]
        b == mg.segments[2]
        earlier == IF a.start <= b.start THEN a ELSE b
        later == IF a.start <= b.start THEN b ELSE a
    IN later.start <= earlier.end =>
         /\ Len(mg.merged_segments) = 1
         /\ mg.merged_segments[1].start = Min(a.start, b.start)
         /\ mg.merged_segments[1].end = Max(a.end, b.end)
         /\ mg.merged_segments[1].motion = (a.motion \/ b.motion)
         /\ mg.merged_segments[1].objects = (a.objects \/ b.objects)

\* Two segments, the later one given first and lying inside the earlier one,
\* one with motion and one with objects, have been merged.
C14_Witness ==
  /\ mg.pc = "merged"
  /\ Len(mg.segments) = 2
  /\ mg.segments[1].start > mg.segments[2].start
  /\ mg.segments[1].end < mg.segments[2].end
  /\ mg.segments[1].motion /\ mg.segments[2].objects
  /\ Len(mg.merged_segments) = 1
  /\ mg.merged_segments[1].motion /\ mg.merged_segments[1].objects

\* The stride is the whole part of base * fps / 30.
ScaledBy(stride, base, fps) == stride * 30 <= base * fps /\ base * fps < (stride + 1) * 30

\* C15: with adaptive skip enabled, base stride 15 becomes 30 at 60 fps, 5 at
\* 10 fps and stays 15 at 24 fps; the stride is scaled by fps/30 only when
\* fps > 30 or fps < 15, is at least 1 when fps < 15, and is the base stride
\* when 15 <= fps <= 30.
C15_AdaptiveSkip ==
  (pv.pc \notin {"none", "open"} /\ pv.video.readable /\ pv.adaptive_skip) =>
    LET base == pv.base_skip_frames
        fps == pv.video.fps
        stride == pv.skip_frames
    IN /\ (base = 15 /\ fps = 60) => stride = 30
       /\ (base = 15 /\ fps = 10) => stride = 5
       /\ (base = 15 /\ fps = 24) => stride = 15
       /\ fps > 30 => ScaledBy(stride, base, fps)
       /\ fps < 15 => /\ stride >= 1
                      /\ \/ ScaledBy(stride, base, fps)
                         \/ stride = 1 /\ base * fps < 30
       /\ (15 <= fps /\ fps <= 30) => stride = base

\* An adaptive run at 10 fps with base stride 2, whose scaled stride would be
\* 0, has analysed every frame.
C15_Witness ==
  /\ pv.pc = "returned"
  /\ pv.adaptive_skip
  /\ pv.base_skip_frames = 2
  /\ pv.video.fps = 10
  /\ pv.skip_frames = 1
  /\ Len(pv.analyzed) = pv.video.total_frames

\* The loop of process_video has ended, and frame 100 is the only analysed
\* frame whose motion or object flag was set, at 10 fps with a buffer of 5 s.
IsolatedFrameDone ==
  /\ pv.pc \in {"extract", "returned"}
  /\ pv.video.readable
  /\ pv.active = {100}
  /\ pv.buffer_seconds = 5
  /\ pv.video.fps = 10

\* The start and end of each segment of a list.
Spans(segments) == [k \in DOMAIN segments |-> <<segments[k].start, segments[k].end>>]

\* C16 as stated: when frame 100 is the only analysed frame with a flag set, at
\* 10 fps with a buffer of 5 s, the closed segments after the end of the stream
\* are exactly [50,150].
C16_IsolatedFrame ==
  IsolatedFrameDone => Spans(pv.segments) = <<(<<50, 150>>)>>

\* C16: when frame 100 is the only analysed frame with a flag set, at 10 fps
\* with a buffer of 5 s, the closed segments after the end of the stream are
\* exactly one segment from 50 to 150 or, in a video of fewer than 151 frames,
\* to the last frame.
C16_IsolatedFrameClamped ==
  IsolatedFrameDone =>
    Spans(pv.segments) = <<(<<50, Min(150, pv.video.total_frames - 1)>>)>>

\* The segment of frame 100 was closed inside the loop, by an analysed frame
\* more than 50 frames later.
C16_Witness ==
  /\ IsolatedFrameDone
  /\ pv.segments = <<Segment(50, 150, TRUE, FALSE)>>
  /\ \E k \in DOMAIN pv.analyzed : pv.analyzed[k] > 150

\* The analysed frames without a flag that lie between flagged frames.
Lulls ==
  {f \in 0..(pv.video.total_frames - 1) :
     /\ f \notin pv.active
     /\ \E before \in pv.active : before < f
     /\ \E after \in pv.active : after > f}

\* The loop of process_video has ended after analysing every frame, and the
\* flagged frames form two bursts with one run of unflagged frames between them.
TwoBurstsDone ==
  /\ pv.pc \in {"extract", "returned"}
  /\ pv.video.readable
  /\ pv.skip_frames = 1
  /\ Lulls # {}
  /\ \A f \in Lulls : \A g \in Lulls : \A between \in f..g : between \in Lulls

\* C17 as stated: two bursts a gap of exactly bufferFrames unflagged frames
\* apart end up as one segment of the final list, and two bursts a gap of
\* bufferFrames + 1 apart end up as two (every frame analysed).
C17_GapSplits ==
  TwoBurstsDone =>
    /\ Cardinality(Lulls) = pv.buffer_frames => Len(pv.merged_segments) = 1
    /\ Cardinality(Lulls) = pv.buffer_frames + 1 => Len(pv.merged_segments) = 2

\* C17: two bursts a gap of exactly bufferFrames unflagged frames apart end up
\* as one segment of the final list; two bursts a gap of bufferFrames + 1 apart
\* are closed as two segments, which stay two in the final list only when
\* bufferFrames is at most 1, because the leading buffer of the second reaches
\* the trailing buffer of the first otherwise.  The final list has two segments
\* exactly when the gap is at least bufferFrames + 1 and at least twice
\* bufferFrames (every frame analysed).
C17_GapSplitsBuilder ==
  TwoBurstsDone =>
    LET gap == Cardinality(Lulls)
    IN /\ gap = pv.buffer_frames => Len(pv.merged_segments) = 1
       /\ gap = pv.buffer_frames + 1 =>
            /\ Len(pv.segments) = 2
            /\ Len(pv.merged_segments) = IF pv.buffer_frames <= 1 THEN 2 ELSE 1
       /\ Len(pv.merged_segments) = 2 <=>
            (gap >= pv.buffer_frames + 1 /\ gap >= 2 * pv.buffer_frames)

\* Two bursts three unflagged frames apart, with a buffer of two frames, were
\* closed as two segments and merged into one.
C17_Witness ==
  /\ TwoBurstsDone
  /\ pv.buffer_frames = 2
  /\ Cardinality(Lulls) = 3
  /\ Len(pv.segments) = 2
  /\ Len(pv.merged_segments) = 1

\* The entries of extracted_clips that were cut from merged segment number k
\* (from 1), which are those that carry its file name.
ClipsOf(k) ==
  {j \in DOMAIN pv.extracted_clips :
     pv.extracted_clips[j].filename =
       ExtractedClip(pv, k - 1, pv.merged_segments[k]).filename}

\* C18: a merged segment that lasts less than 1.0 second produces no clip, and a
\* merged segment of 1.0 second or more is not skipped and, when its cut
\* succeeds, produces exactly one clip.
C18_ClipFilter ==
  (pv.pc \in {"extract", "returned"} /\ pv.video.readable) =>
    \A k \in 1..pv.i :
      LET segment == pv.merged_segments[k]
          milliseconds == ((segment.end - segment.start) * 1000) \div pv.video.fps
      IN /\ milliseconds < 1000 => ClipsOf(k) = {}
         /\ milliseconds >= 1000 =>
              /\ pv.cuts[k] # "skipped"
              /\ pv.cuts[k] = "cut" => Cardinality(ClipsOf(k)) = 1

\* A call has returned one clip for its first merged segment, of nine
\* seconds, and none for its second, of no length.
C18_Witness ==
  /\ pv.pc = "returned"
  /\ Spans(pv.merged_segments) = <<(<<1, 10>>), (<<27, 27>>)>>
  /\ pv.video.fps = 1
  /\ pv.cuts = <<"cut", "skipped">>
  /\ ClipsOf(1) = {1}
  /\ ClipsOf(2) = {}

\* process_video has returned from a 30 fps video of 300 frames whose picture
\* changes only between second 4 and second 6 and shows no object, analysed
\* with a buffer of 2 seconds and the default stride.
EndToEndDone ==
  /\ pv.pc = "returned"
  /\ pv.video.readable
  /\ pv.video.fps = 30
  /\ pv.video.total_frames = 300
  /\ pv.video.changed # {}
  /\ pv.video.changed \subseteq 120..180
  /\ pv.video.detections = {}
  /\ pv.buffer_seconds = 2
  /\ pv.base_skip_frames = DefaultSkipFrames

\* The file name without its extension ends with the suffix.
HasSuffix(filename, suffix) ==
  LET stem == Len(filename) - Len(".mp4")
  IN /\ stem >= Len(suffix)
     /\ SubSeq(filename, stem - Len(suffix) + 1, stem) = suffix

\* The text occurs in the file name.
Mentions(filename, text) ==
  \E at \in 1..(Len(filename) - Len(text) + 1) :
    SubSeq(filename, at, at + Len(text) - 1) = text

\* C19 as stated, read in its favour (the motion is strong enough to be seen,
\* the cut succeeds, and "about" allows one second): the call returns exactly
\* one clip, from about second 2 to about second 8, named _mot and not _obj.
C19_EndToEnd ==
  (EndToEndDone /\ pv.active # {} /\ "failed" \notin Range(pv.cuts)) =>
    /\ Len(pv.extracted_clips) = 1
    /\ pv.extracted_clips[1].start_time \in 1001..2999
    /\ pv.extracted_clips[1].end_time \in 7001..8999
    /\ HasSuffix(pv.extracted_clips[1].filename, "_mot")
    /\ ~Mentions(pv.extracted_clips[1].filename, "_obj")

\* C19: a change whose motion score does not exceed the threshold gives no clip;
\* one of score 0.025 or more gives one merged segment, which starts at or after
\* frame 60 (second 2) and, the rolling history keeping the motion flag set
\* after the change, ends at or after frame 270 (second 9); when its cut
\* succeeds it is the one clip returned, named _mot and not _obj.
C19_EndToEndRolling ==
  EndToEndDone =>
    /\ pv.video.motion_score <= MotionThreshold => pv.extracted_clips = <<>>
    /\ pv.video.motion_score >= 25 =>
         /\ Len(pv.merged_segments) = 1
         /\ pv.merged_segments[1].start >= 60
         /\ pv.merged_segments[1].end >= 270
         /\ Len(pv.extracted_clips) = IF pv.cuts = <<"cut">> THEN 1 ELSE 0
         /\ \A j \in DOMAIN pv.extracted_clips :
              /\ pv.extracted_clips[j].start_time >= 2000
              /\ pv.extracted_clips[j].end_time >= 9000
              /\ HasSuffix(pv.extracted_clips[j].filename, "_mot")
              /\ ~Mentions(pv.extracted_clips[j].filename, "_obj")

\* The call has returned one clip, cut from frame 70 to the last frame of the
\* video and named _mot.
C19_Witness ==
  /\ EndToEndDone
  /\ Spans(pv.merged_segments) = <<(<<70, 299>>)>>
  /\ Len(pv.extracted_clips) = 1
  /\ pv.extracted_clips[1].filename = "out/in/a_seg001_00002_00009_mot.mp4"

\* C20: the progress callback is invoked once for every analysed frame, with a
\* whole percentage from 0 to 100, and once more, with 100, when the processing
\* of the video completes.
C20_ProgressCallback ==
  /\ pv.pc \in {"loop", "extract"} => Len(pv.calls) = Len(pv.analyzed)
  /\ pv.pc \notin {"none", "open"} =>
       \A k \in DOMAIN pv.calls : pv.calls[k][1] \in 0..100
  /\ pv.pc = "returned" =>
       /\ Len(pv.calls) = Len(pv.analyzed) + 1
       /\ pv.calls[Len(pv.calls)][1] = 100

\* C11: once the cancellation flag is set during a run, no task of the work
\* list that has not been started is started.
C11_CancelStopsStarts ==
  [][processing_cancelled =>
       \A k \in Tasks :
         ~(/\ k \in DOMAIN future
           /\ k \in DOMAIN future'
           /\ future[k].state = "pending"
           /\ future'[k].state = "running")]_vars

\* C12: when a cancelled run returns, every task that was started has run its
\* pipeline to the end, and every file whose pipeline finished in the run has
\* its record rewritten in the progress log, with a completion time on success
\* and without one on failure.
C12_CancelKeepsWork ==
  (mainPc = "returned" /\ processing_cancelled) =>
    /\ \A k \in DOMAIN future :
         /\ future[k].state # "running"
         /\ future[k].state # "cancelled" => pipeline[Basename(video_files[k])].kind # "none"
    /\ \A f \in WorkList :
         pipeline[f].kind # "none" =>
           /\ RowsOf(LogRows, f) # {}
           /\ \A r \in RowsOf(LogRows, f) :
                (r.processed_datetime # "") <=> (pipeline[f].kind \in {"ok", "unopened"})

\* C21: at every iteration of the analysis loop the frames analysed so far are
\* the frames taken from the capture whose index is a multiple of the stride,
\* and current_frame_idx is the number of frames taken from the capture.
C21_FrameSampler ==
  pv.pc = "loop" =>
    /\ Range(pv.analyzed) = {f \in 0..(pv.position - 1) : f % pv.skip_frames = 0}
    /\ pv.current_frame_idx = pv.position

\* C22: the open segment and every closed segment of the builder have
\* start <= end in every state, and the end of a segment does not decrease
\* while the segment is open.
C22_SegmentInvariant ==
  /\ [](pv.pc # "none" =>
          \A segment \in Range(pv.segments) \cup Range(pv.current_segment) :
            segment.start <= segment.end)
  /\ [][(pv.pc # "none" /\ pv.current_segment # <<>> /\ pv'.current_segment # <<>>) =>
          pv'.current_segment[1].end >= pv.current_segment[1].end]_vars

\* A second segment is open and has been extended beyond the frame that
\* opened it, after a first segment was closed.
C22_Witness ==
  /\ pv.pc = "loop"
  /\ Len(pv.segments) = 1
  /\ pv.current_segment # <<>>
  /\ pv.current_segment[1].end > pv.current_segment[1].start + pv.buffer_frames

\* C23: a segment that is open when the stream ends is closed with
\* end = min(end + bufferFrames, totalFrames - 1), and every closed segment,
\* whether closed inside the loop or at the end of the stream, has 0 <= start
\* and end <= totalFrames - 1.
C23_SegmentBounds ==
  /\ [][(pv.pc = "loop" /\ pv'.pc = "extract" /\ pv.current_segment # <<>>) =>
          /\ Len(pv'.segments) = Len(pv.segments) + 1
          /\ pv'.segments[Len(pv'.segments)].start = pv.current_segment[1].start
          /\ pv'.segments[Len(pv'.segments)].end =
               IF pv.current_segment[1].end + pv.buffer_frames < pv.video.total_frames - 1
               THEN pv.current_segment[1].end + pv.buffer_frames
               ELSE pv.video.total_frames - 1]_vars
  /\ [](pv.pc # "none" =>
          \A segment \in Range(pv.segments) :
            /\ 0 <= segment.start
            /\ segment.end <= pv.video.total_frames - 1)

\* The stream has ended with a segment open whose buffer would reach beyond the
\* last frame, and the segment was closed at the last frame.
C23_Witness ==
  /\ pv.pc = "extract"
  /\ Len(pv.segments) = 1
  /\ pv.segments[1].end = pv.video.total_frames - 1
  /\ \E f \in pv.active : f + pv.buffer_frames > pv.video.total_frames - 1

\* The frames the segments of a list cover.
Covered(segments) == UNION {segments[k].start..segments[k].end : k \in DOMAIN segments}

\* Each segment of the list starts after the end of the one before it.
DisjointAscending(segments) ==
  \A k \in 1..(Len(segments) - 1) : segments[k + 1].start > segments[k].end

\* C24: for every list of segments the merged list has each segment start after
\* the end of the one before it and covers the frames the given list covers;
\* the same holds inside process_video, and the clips process_video returns
\* are in ascending order of their start.
C24_DisjointCover ==
  /\ mg.pc \in {"merged", "twice"} =>
       /\ DisjointAscending(mg.merged_segments)
       /\ Covered(mg.merged_segments) = Covered(mg.segments)
  /\ pv.pc \in {"extract", "returned"} =>
       /\ DisjointAscending(pv.merged_segments)
       /\ Covered(pv.merged_segments) = Covered(pv.segments)
       /\ \A j \in DOMAIN pv.extracted_clips : \A k \in DOMAIN pv.extracted_clips :
            j < k => pv.extracted_clips[j].start_time < pv.extracted_clips[k].start_time

\* A call has returned two clips in the order of their start, cut from two
\* merged segments that were made of three closed segments.
C24_Witness ==
  /\ pv.pc = "returned"
  /\ Len(pv.segments) = 3
  /\ Len(pv.merged_segments) = 2
  /\ Len(pv.extracted_clips) = 2
  /\ pv.extracted_clips[1].start_time < pv.extracted_clips[2].start_time

\* C25: when the cut of a merged segment fails, the call goes on; once it has
\* returned, every merged segment has been dealt with, a segment whose cut
\* failed has no clip, and every other merged segment of at least 1.0 second
\* has its one clip.
C25_CutErrorsIsolated ==
  /\ (pv.pc = "extract" /\ "failed" \in Range(pv.cuts)) => ENABLED NextVideo
  /\ (pv.pc = "returned" /\ pv.video.readable) =>
       /\ Len(pv.cuts) = Len(pv.merged_segments)
       /\ \A k \in DOMAIN pv.merged_segments :
            LET segment == pv.merged_segments[k]
            IN IF pv.cuts[k] = "failed"
               THEN ClipsOf(k) = {}
               ELSE (segment.end - segment.start) >= pv.video.fps =>
                      Cardinality(ClipsOf(k)) = 1

\* The cut of the first of two merged segments failed, and the call has
\* returned the clip of the second.
C25_Witness ==
  /\ pv.pc = "returned"
  /\ pv.cuts = <<"failed", "cut">>
  /\ Len(pv.extracted_clips) = 1
  /\ ClipsOf(1) = {}
  /\ ClipsOf(2) = {1}

\* C26: the model is run on exactly the analysed frames whose index is a
\* multiple of three strides; the object flag of an analysed frame is set iff
\* the model was run on it and at least one of its detections passes the
\* filter; detection_count is the number of analysed frames with the flag set,
\* however many detections pass.
C26_DetectionCadence ==
  (pv.pc \in {"loop", "extract", "returned"} /\ pv.video.readable) =>
    LET run_on == Range(pv.detector_calls)
    IN /\ run_on = {f \in Range(pv.analyzed) : f % (3 * pv.skip_frames) = 0}
       /\ \A k \in DOMAIN pv.analyzed :
            pv.object_flags[k] <=>
              /\ pv.analyzed[k] \in run_on
              /\ \E j \in DOMAIN Results(pv, pv.analyzed[k]) :
                   Survives(Results(pv, pv.analyzed[k])[j], pv)
       /\ pv.detection_count =
            Cardinality({k \in DOMAIN pv.analyzed : pv.object_flags[k]})

\* Every frame was analysed and the model was run on frames 0 and 3: two
\* detections pass in frame 0, one of two passes in frame 3, the frame 1 in
\* which an object stands was not given to the model, and the count is 2.
C26_Witness ==
  /\ pv.pc = "returned"
  /\ pv.skip_frames = 1
  /\ pv.detector_calls = <<0, 3>>
  /\ Len(Results(pv, 0)) = 2
  /\ Len(Results(pv, 3)) = 2
  /\ Survives(Results(pv, 3)[1], pv) /\ ~Survives(Results(pv, 3)[2], pv)
  /\ Results(pv, 1) # <<>>
  /\ pv.object_flags = <<TRUE, FALSE, FALSE, TRUE, FALSE, FALSE>>
  /\ pv.detection_count = 2

\* video.py:124-126: the area of the frame the model is given, which is the
\* frame of the video scaled by resize_factor
GivenFrameArea(call) ==
  ((call.video.frame_width * call.resize_factor) \div 100)
    * ((call.video.frame_height * call.resize_factor) \div 100)

\* C27: on a frame the model is run on, the object flag is set iff one of the
\* detections has a class of target_classes (or no classes are set), a
\* confidence of at least the threshold and a box area of at least
\* min_object_area_ratio times the area of the frame the model was given,
\* whatever resize_factor is.
C27_DetectionFilter ==
  (pv.pc \in {"loop", "extract", "returned"} /\ pv.video.readable) =>
    \A k \in DOMAIN pv.analyzed :
      pv.analyzed[k] \in Range(pv.detector_calls) =>
        (pv.object_flags[k] <=>
           \E j \in DOMAIN Results(pv, pv.analyzed[k]) :
             LET box == Results(pv, pv.analyzed[k])[j]
             IN /\ pv.target_classes = <<>> \/ box.cls \in pv.target_classes[1]
                /\ box.conf >= pv.confidence
                /\ box.area * 1000 >= pv.min_object_area_ratio * GivenFrameArea(pv))

\* The last ten, or fewer, of the first n scores of the call.
Window(n) == SubSeq(pv.scores, Max(1, n - 9), n)

\* C28: the motion history never holds more than 10 scores; it is the scores,
\* oldest first, of the latest analysed frames that had a previous frame; the
\* motion flag of an analysed frame is set iff the mean of the history with the
\* score of that frame exceeds motion_threshold, and is not set on the first
\* analysed frame.
C28_MotionHistory ==
  (pv.pc \in {"loop", "extract", "returned"} /\ pv.video.readable) =>
    /\ Len(pv.motion_history) <= 10
    /\ Len(pv.scores) = Max(0, Len(pv.analyzed) - 1)
    /\ pv.motion_history = Window(Len(pv.scores))
    /\ \A k \in DOMAIN pv.analyzed :
         pv.motion_flags[k] <=>
           /\ k > 1
           /\ SumOf(Window(k - 1)) > MotionThreshold * Len(Window(k - 1))

\* A call has analysed 30 frames: the history is full and has dropped scores,
\* and the motion flag was set for a while and is not set at the end.
C28_Witness ==
  /\ pv.pc = "returned"
  /\ Len(pv.scores) = 29
  /\ Len(pv.motion_history) = 10
  /\ pv.video.motion_score = 25
  /\ \E k \in DOMAIN pv.motion_flags : pv.motion_flags[k]
  /\ ~pv.motion_flags[Len(pv.motion_flags)]

\* C29: the work list is in ascending order of the names, every file of it
\* once; the tasks submitted are one for each file of the work list; a task is
\* started only if it was never started and its file has not been processed in
\* the run; when a run ends that was not cancelled, every file of the work list
\* has been processed.
C29_Dispatch ==
  /\ [](/\ \A j \in DOMAIN video_files : \A k \in DOMAIN video_files :
             j < k => StrLess(Basename(video_files[j]), Basename(video_files[k]))
        /\ future # <<>> => DOMAIN future = DOMAIN video_files)
  /\ [][\A k \in Tasks :
          (/\ k \in DOMAIN future
           /\ k \in DOMAIN future'
           /\ future[k].state # "running"
           /\ future'[k].state = "running")
          => /\ future[k].state = "pending"
             /\ pipeline[Basename(video_files'[k])].kind = "none"]_vars
  /\ []((mainPc \in {"returned", "raised"} /\ ~processing_cancelled) =>
          \A k \in DOMAIN video_files :
            /\ k \in DOMAIN future
            /\ future[k].state \in {"finished", "raised"}
            /\ pipeline[Basename(video_files[k])].kind # "none")

\* A run that was not cancelled has returned: os.listdir gave the three files
\* in descending order, the work list has them in ascending order, and each
\* has been processed.
C29_Witness ==
  /\ mainPc = "returned"
  /\ ~processing_cancelled
  /\ listing = <<"c.mp4", "b.mp4", "a.mp4">>
  /\ video_files = <<"in/a.mp4", "in/b.mp4", "in/c.mp4">>
  /\ \A f \in Files : pipeline[f].kind # "none"

\* C30: when a run has ended, a file of its work list whose pipeline completed
\* without an exception and gave no clip has a record with a non-empty
\* processed_datetime and an empty list of segment files; and a file that had
\* such a record when a run began is not in the work list of that run.
C30_ZeroClipsDone ==
  /\ mainPc \in {"returned", "raised"} =>
       \A f \in WorkList :
         (pipeline[f].kind \in {"ok", "unopened"} /\ pipeline[f].segment_files = <<>>) =>
           /\ RowsOf(LogRows, f) # {}
           /\ \A r \in RowsOf(LogRows, f) :
                r.processed_datetime # "" /\ r.segment_files = "[]"
  /\ runs > 0 =>
       \A X \in Range(listing) :
         (\E r \in RowsOf(logAtStart, X) :
            r.processed_datetime # "" /\ r.segment_files = "[]")
         => (X \notin WorkList /\ ~Started(X))

\* C31: a cancellation requested with the front end's Cancel button during
\* a run is observed by the orchestrator: once the front end's flag is set,
\* the flag process_subfolder tests in its completion loop is set as well.
C31_CancelObserved ==
  (ui.pc = "processing" /\ ui.clicked \in {"submit", "collect"})
    => processing_cancelled

\* C32: when process_subfolder returns, also after a cancellation, the clip
\* list it returns holds the clips of every file whose record was written as
\* completed in the run, and completed_count is the number of files whose
\* task has finished.
C32_ResultAgreesWithLog ==
  mainPc = "returned" =>
    /\ \A k \in DOMAIN future :
         LET f == Basename(video_files[k])
         IN (/\ future[k].state = "finished"
             /\ pipeline[f].kind \in {"ok", "unopened"}
             /\ \E r \in RowsOf(LogRows, f) : r.processed_datetime # "")
              => \A j \in DOMAIN future[k].clips :
                   \E i \in DOMAIN all_clips : all_clips[i] = future[k].clips[j]
    /\ completed_count = Cardinality({k \in DOMAIN future : future[k].state = "finished"})

\* C33: a call of update_processing_log for a file, run alone, changes only
\* the row of that file: every other row keeps its fields and the rows keep
\* their order, and when the file had no row exactly one row for it is added
\* at the end.
C33_UpdateFrame ==
  [][\A filename \in Files : \A data \in UpdateData(filename) :
       UpdateProcessingLog(filename, data) =>
         LET old == LogRows
             new == RowsAt(dir', inode')
         IN IF RowFound(old, filename)
            THEN /\ Len(new) = Len(old)
                 /\ \A k \in DOMAIN old :
                      IF old[k].filename = filename
                      THEN new[k] = UpdatedRow(old[k], data)
                      ELSE new[k] = old[k]
            ELSE /\ Len(new) = Len(old) + 1
                 /\ \A k \in DOMAIN old : new[k] = old[k]
                 /\ new[Len(new)] = UpdatedRow(EmptyRow(filename), data)]_vars

\* A log of three rows in which the middle one has been rewritten with a
\* clip and the last one with a failure, the first one left as it was.
C33_Witness ==
  /\ mainPc = "idle"
  /\ Len(LogRows) = 3
  /\ LogRows[1] = EmptyRow("b.mp4")
  /\ LogRows[2].filename = "a.mp4" /\ LogRows[2].segment_files # "" /\ LogRows[2].segment_files # "[]"
  /\ LogRows[3].filename = "c.mp4" /\ LogRows[3].objects = "0" /\ LogRows[3].processed_datetime = ""

\* C34: after any sequence of initialize_processing_log and
\* update_processing_log calls, one after the other, the log has at most one
\* row for a filename; initialize_processing_log leaves the rows it finds as
\* they are and adds, after them, one row with empty fields for each file
\* that has none.
C34_OneRowPerFile ==
  /\ [](\A k, j \in DOMAIN LogRows : LogRows[k].filename = LogRows[j].filename => k = j)
  /\ [][\A files \in VideoFileLists :
          InitializeProcessingLog(files) =>
            LET old == LogRows
                new == RowsAt(dir', inode')
                added == SubSeq(new, Len(old) + 1, Len(new))
            IN /\ Len(new) >= Len(old)
               /\ SubSeq(new, 1, Len(old)) = old
               /\ \A k \in DOMAIN added : added[k] = EmptyRow(added[k].filename)
               /\ RowNames(added) = {Basename(files[k]) : k \in DOMAIN files} \ RowNames(old)
               /\ Len(added) = Cardinality(RowNames(added))]_vars

\* A log in which a file has its record and a later initialize_processing_log
\* has added two files after it.
C34_Witness ==
  /\ mainPc = "idle"
  /\ Len(LogRows) = 3
  /\ LogRows[1].filename = "b.mp4" /\ LogRows[1].processed_datetime # ""
  /\ LogRows[2] = EmptyRow("c.mp4")
  /\ LogRows[3] = EmptyRow("a.mp4")

\* The merged segment a frame lies in, as a set of positions in the merged list.
SegmentsAround(idx) ==
  {k \in DOMAIN pv.merged_segments :
     pv.merged_segments[k].start <= idx /\ idx <= pv.merged_segments[k].end}

\* C35: two analysed frames with the motion flag or the object flag set whose
\* indices differ by at most 2 * buffer_frames lie in one segment of the
\* merged list, so the flagged frames of two different merged segments are
\* more than 2 * buffer_frames apart.
C35_MergingReach ==
  pv.pc \in {"extract", "returned"} /\ pv.video.readable =>
    /\ \A i, j \in pv.active :
         (i <= j /\ j - i <= 2 * pv.buffer_frames) =>
           SegmentsAround(i) \cap SegmentsAround(j) # {}
    /\ \A i, j \in pv.active :
         SegmentsAround(i) \cap SegmentsAround(j) = {} =>
           (i - j > 2 * pv.buffer_frames \/ j - i > 2 * pv.buffer_frames)

\* Two bursts of flagged frames five frames apart under a buffer of three
\* frames end in one merged segment although the builder closed a segment
\* between them.
C35_Witness ==
  /\ pv.pc = "returned"
  /\ pv.buffer_frames = 3
  /\ {10, 15} \subseteq pv.active
  /\ pv.active \cap 11..14 = {}
  /\ Len(pv.segments) = 2
  /\ Len(pv.merged_segments) = 1

\* The times the skip branch was taken after the last frame of the video.
SkipsAfterEnd == pv.grabbed + Len(pv.analyzed) - pv.position

\* C36: the analysis loop ends for every video and every stride of one or
\* more: once the last frame is consumed the skip branch is taken at most
\* stride - 1 more times, then the read fails and the loop is left.
C36_LoopTerminates ==
  /\ [](pv.pc \in {"loop", "extract", "returned"} /\ pv.video.readable =>
          /\ pv.skip_frames >= 1
          /\ SkipsAfterEnd <= pv.skip_frames - 1)
  /\ <>(pv.pc \notin {"open", "loop"})

\* A video of 151 frames under a stride of 50: frame 150 is the last one
\* analysed and the skip branch runs 49 times on the ended stream.
C36_Witness ==
  /\ pv.pc = "returned"
  /\ pv.video.total_frames = 151
  /\ pv.skip_frames = 50
  /\ pv.analyzed = <<0, 50, 100, 150>>
  /\ SkipsAfterEnd = 49

\* The segments process_video holds: the open one, the closed ones, the merged ones.
HeldSegments ==
  Range(pv.current_segment) \cup Range(pv.segments) \cup Range(pv.merged_segments)

\* C37: every segment, open, closed or merged, has its motion flag or its
\* objects flag set in every state, so the name of every extracted clip ends
\* in _obj, _mot or _obj_mot, and in the record process_single_video makes of
\* the returned clips objects + motion is at least the number of segment_files.
C37_FlaggedSegments ==
  pv.pc # "none" =>
    /\ \A segment \in HeldSegments : segment.motion \/ segment.objects
    /\ \A k \in DOMAIN pv.extracted_clips :
         LET clip == pv.extracted_clips[k]
         IN /\ HasSuffix(clip.filename, "_obj") \/ HasSuffix(clip.filename, "_mot")
            /\ clip.objects + clip.motion >= 1
    /\ pv.pc = "returned" =>
         LET data == SuccessData(pv.extracted_clips)
             objects == Total(pv.extracted_clips, "objects")
             motion == Total(pv.extracted_clips, "motion")
         IN /\ data.objects = Str(objects)
            /\ data.motion = Str(motion)
            /\ objects + motion >= Len(data.segment_files)

\* A call that returned one clip, cut for a burst of motion with an object
\* in it; a second segment, held for an object alone, was too short to cut.
C37_Witness ==
  /\ pv.pc = "returned"
  /\ Len(pv.merged_segments) = 2
  /\ pv.merged_segments[2].objects /\ ~pv.merged_segments[2].motion
  /\ Len(pv.extracted_clips) = 1
  /\ HasSuffix(pv.extracted_clips[1].filename, "_obj_mot")
  /\ SuccessData(pv.extracted_clips).objects = "1"
  /\ SuccessData(pv.extracted_clips).motion = "1"
  /\ Len(SuccessData(pv.extracted_clips).segment_files) = 1

\* C38: the closed segments of the builder are strictly ascending by start,
\* the open segment starts after every closed one, and once the loop has
\* ended the sort before the merge leaves the list as it is.
C38_BuilderAscending ==
  pv.pc # "none" =>
    /\ \A k, j \in DOMAIN pv.segments :
         k < j => pv.segments[k].start < pv.segments[j].start
    /\ \A k \in DOMAIN pv.segments :
         pv.current_segment # <<>> => pv.segments[k].start < pv.current_segment[1].start
    /\ pv.pc \in {"extract", "returned"} => SortByStart(pv.segments) = pv.segments

\* Three bursts leave three closed segments, the second starting on the last
\* frame of the first.
C38_Witness ==
  /\ pv.pc = "returned"
  /\ Len(pv.segments) = 3
  /\ pv.segments[2].start = pv.segments[1].end
  /\ pv.segments[1].start < pv.segments[2].start
  /\ pv.segments[2].start < pv.segments[3].start
  /\ Len(pv.merged_segments) = 2

====
